---- MODULE Spec2Model ----
(***************************************************************************)
(* Verification model of site-asset-downloader.                            *)
(*                                                                         *)
(* Part 1: BrowserPool (src/src/browser-pool.js).  Every `await` of the    *)
(* source is a suspension point; the code between two suspension points    *)
(* runs as one atomic action (single-threaded event loop).                 *)
(* Part 2: retryAsync (src/src/browser-extractor.js).                      *)
(***************************************************************************)
EXTENDS Integers, Sequences, FiniteSets, TLC

\* ------------------------------------------------------------------ bounds
NCallers == 3         \* users of the pool: each calls acquirePage() once and
                      \* releasePage() once on the handle it got
MaxShutdowns == 1     \* shutdown() calls
MaxRetriesOpt == 3    \* options.maxRetries ranges over 0..MaxRetriesOpt
NDownloads == 3       \* downloadFile calls
MaxCleanups == 1      \* cleanupJob() calls
NRequests == 2        \* requests to POST /extract and POST /download-bulk
                      \* followed one by one
MaxOtherJobs == 101   \* jobs of other requests, followed by their number
MaxFound == 2         \* urls an extraction discovers in the page
MaxSweeps == 1        \* runs of the periodic sweep
MaxAgain == 1         \* releasePage() calls on a handle that is not leased

\* constructor options the pool is built with
BrowserLimits == {1, 2}   \* options.maxBrowsers
PageLimits == {1, 2}      \* options.maxPagesPerBrowser

Callers == 1..NCallers
\* Every acquirePage() call opens at most one page, creates at most one init
\* promise and launches at most one browser besides the one its init promise
\* launches, so these id spaces are never exhausted.
PageIds == 1..NCallers
InitIds == 1..NCallers
BrowserIds == 1..(2 * NCallers)

VARIABLES
  \* --- BrowserPool fields
  maxBrowsers,         \* this.maxBrowsers
  maxPagesPerBrowser,  \* this.maxPagesPerBrowser
  browsers,            \* this.browsers: sequence of browser ids
  availablePages,      \* this.availablePages: sequence of page ids
  busyPages,           \* this.busyPages: set of page ids
  initPromise,         \* this.initPromise: 0 = null, else id of the promise
  \* --- the world outside the pool object
  initState,           \* per init promise: "none" | "pending" | "resolved" | "rejected"
  initEpoch,           \* per init promise: number of completed shutdowns when created
  nInit,               \* init promises created so far
  blankTabs,           \* pages a freshly launched browser reports before newPage()
  launched,            \* browsers launched so far (ids 1..launched)
  connected,           \* per browser: browser.isConnected()
  nPages,              \* pages created so far (ids 1..nPages)
  pageOwner,           \* per page: id of its browser (0 = not created)
  pageOpen,            \* per page: not closed
  pageEpoch,           \* per page: number of completed shutdowns when created
  epoch,               \* number of completed shutdown() calls
  \* --- one acquirePage()/releasePage() user per caller
  pc,                  \* position of the caller
  page,                \* the caller's page handle (0 = none)
  br,                  \* browser the caller is working on (0 = none)
  idx,                 \* index of br in the for-of loop over this.browsers
  wait,                \* init promise the caller awaits (0 = none)
  polling,             \* the caller's setInterval is active
  \* --- shutdown()
  sdpc,                \* "idle" | "pages" | "browsers"
  sdPages,             \* pages of the snapshot still to close
  sdIdx,               \* index in the for-of loop over this.browsers
  \* --- history
  failedReset,         \* pages whose reset failed in releasePage
  grantedAfterFail,    \* a handle was handed out after some reset had failed
  callEpoch            \* per caller: completed shutdowns when it called acquirePage

\* --- retryAsync(fn, options): one call
VARIABLES
  maxRetries,          \* options.maxRetries
  retryDelay,          \* options.retryDelay, in ms
  backoffMultiplier,   \* options.backoffMultiplier, as <<numerator, denominator>>
  attempt,             \* the loop variable
  rpc,                 \* "idle" | "try" | "delay" | "returned" | "thrown"
  calls,               \* number of times fn was called
  errs,                \* the errors fn raised, in order
  waits,               \* the durations passed to delay(), in order
  lastError,           \* the variable lastError (NoError = undefined)
  result,              \* the value returned or the error thrown
  onRetry,             \* options.onRetry: "none" (null) | "quiet" | "throws"
  notes,               \* the argument lists onRetry was called with, in order
  site,                \* who calls: "direct" (fn is the request) | "fetchHtml"
  answers,             \* the statuses the server answered with, in order
  plain                \* the same call made without observer: rpc, result, calls

retryVars == <<maxRetries, retryDelay, backoffMultiplier, attempt, rpc, calls, errs,
               waits, lastError, result, onRetry, notes, site, answers, plain>>

poolVars == <<maxBrowsers, maxPagesPerBrowser, browsers, availablePages, busyPages,
              initPromise, initState, initEpoch, nInit, blankTabs, launched,
              connected, nPages, pageOwner, pageOpen, pageEpoch, epoch,
              pc, page, br, idx, wait, polling, sdpc, sdPages, sdIdx, failedReset,
              grantedAfterFail, callEpoch>>

\* --- DownloadManager (src/unnamed/part_001) and one downloadBulk call
VARIABLES
  concurrent,          \* this.concurrent
  maxFileSize,         \* this.maxFileSize, in bytes
  activeDownloads,     \* this.activeDownloads: the download ids in it
  completedDownloads,  \* this.completedDownloads: the download ids in it
  failedDownloads,     \* this.failedDownloads: the download ids in it
  dpc,                 \* per downloadFile call: its position
  downloadedBytes,     \* per call: the variable downloadedBytes
  fileExists,          \* per call: a file exists at its filePath
  dlError,             \* per call: the error it threw ("" = none)
  asked,               \* per call: the statuses the server answered with
  overDeclared,        \* the calls answered with a Content-Length over maxFileSize
  progressCallback,    \* the callback the calls are given: an element of Observers
  crashed,             \* the uncaught exception the process died of (NoCrash: none)
  total,               \* results.total: calls 1..total are the items of the bulk call
  results,             \* results.completed and results.failed of the bulk call
  bulkpc,              \* downloadBulk: "idle" | "running" | "returned"
  nCleanups,           \* cleanupJob() calls made
  zpc,                 \* createZipArchive: "idle" | "open" | "closed"
  zipQueued,           \* the downloads whose file was given to archive.file()
  zipEntries,          \* the entry names in the finished archive
  manifest,            \* the content of manifest.json
  fileCount            \* the fileCount createZipArchive resolved with

dlVars == <<concurrent, maxFileSize, activeDownloads, completedDownloads,
            failedDownloads, dpc, downloadedBytes, fileExists, dlError, asked,
            overDeclared, progressCallback, crashed, total, results, bulkpc,
            nCleanups, zpc, zipQueued,
            zipEntries, manifest, fileCount>>

VARIABLES
  activeJobs,          \* the map activeJobs: per key a status ("absent": no entry)
  jobResults,          \* the map jobResults: per key a record (NoJob: no entry)
  jpc,                 \* per request: the position of its handler
  jkey,                \* per request: the job id it was answered with
  jlen,                \* per request: mediaUrls.length
  jbad,                \* per request: results.failed.length of its downloadBulk
  answer,              \* per request: the response sent
  records,             \* per request: the download records the manager holds of it
  files,               \* per request: its downloaded files still on disk
  zipOnDisk,           \* per key: the request that wrote <key>_archive.zip (0: no file)
  died,                \* the request whose download killed the process (0: running)
  nApiCleanups,        \* DELETE /cleanup requests made
  otherActive,         \* entries of activeJobs of other requests
  otherResults         \* entries of jobResults of other requests

regVars == <<activeJobs, jobResults, jpc, jkey, jlen, jbad, answer, records, files,
             zipOnDisk, died, nApiCleanups, otherActive, otherResults>>

VARIABLES
  xpc,                 \* the position of the extraction request
  xkind,               \* the extractor used: "cheerio" (MediaExtractor) or "browser"
  xtarget,             \* req.body.url
  xfilters,            \* req.body.filters
  mediaUrls,           \* the set mediaUrls of extractMedia
  pending,             \* the urls of mediaArray not validated yet
  media,               \* results.media
  xerrors,             \* results.errors.length
  fetches              \* the requests sent: what for, and to which url

exVars == <<xpc, xkind, xtarget, xfilters, mediaUrls, pending, media, xerrors, fetches>>

VARIABLES
  fpc,                 \* the position of a validateMediaFilters call
  filters,             \* its argument
  validated            \* the object it returns

fnVars == <<fpc, filters, validated>>

VARIABLES
  npc,                 \* per downloadFile call: where it is with its file
  basename,            \* per call: path.basename of the pathname of its url
  filePath,            \* per call: the variable filePath (NoPath: not assigned)
  onDisk,              \* the files that exist under downloads/
  written              \* the files written by the calls that completed

nameVars == <<npc, basename, filePath, onDisk, written>>

VARIABLES
  old,                 \* the keys of jobResults whose completedAt is before the cutoff
  nSweeps              \* runs of cleanupOldJobs made

sweepVars == <<old, nSweeps>>

VARIABLES
  again,               \* the pages a further releasePage() call is resetting
  nAgain               \* releasePage() calls made on a handle not leased

relVars == <<again, nAgain>>

apiVars == <<regVars, exVars, fnVars, nameVars, sweepVars, relVars>>

vars == <<poolVars, retryVars, dlVars, apiVars>>

Range(s) == {s[i] : i \in 1..Len(s)}

\* ------------------------------------------------------------- constructor
PoolInit ==
  /\ maxBrowsers \in BrowserLimits
  /\ maxPagesPerBrowser \in PageLimits
  /\ browsers = <<>>
  /\ availablePages = <<>>
  /\ busyPages = {}
  /\ initPromise = 0
  /\ initState = [k \in InitIds |-> "none"]
  /\ initEpoch = [k \in InitIds |-> 0]
  /\ nInit = 0
  /\ blankTabs \in {0, 1}
  /\ launched = 0
  /\ connected = [b \in BrowserIds |-> FALSE]
  /\ nPages = 0
  /\ pageOwner = [p \in PageIds |-> 0]
  /\ pageOpen = [p \in PageIds |-> FALSE]
  /\ pageEpoch = [p \in PageIds |-> 0]
  /\ epoch = 0
  /\ pc = [c \in Callers |-> "idle"]
  /\ page = [c \in Callers |-> 0]
  /\ br = [c \in Callers |-> 0]
  /\ idx = [c \in Callers |-> 0]
  /\ wait = [c \in Callers |-> 0]
  /\ polling = [c \in Callers |-> FALSE]
  /\ sdpc = "idle"
  /\ sdPages = {}
  /\ sdIdx = 0
  /\ failedReset = {}
  /\ grantedAfterFail = FALSE
  /\ callEpoch = [c \in Callers |-> 0]

\* ------------------------------------------------------------------ helpers
Min(S) == CHOOSE x \in S : \A y \in S : x <= y

\* browser.pages().length: the tabs the browser has open
OpenPages(b) ==
  blankTabs + Cardinality({p \in 1..nPages : pageOwner[p] = b /\ pageOpen[p]})

\* availablePages.pop(): the element handed out, and what is left
Last(s) == s[Len(s)]
\* pop() as a peek: the page is read but left at the end of the list
Pop_Peek(s) == s
Pop(s) == SubSeq(s, 1, Len(s) - 1)

\* the same test made on the browser list: true until a browser exists
NeedsInit_NoBrowserYet == Len(browsers) = 0
\* `!this.initPromise` (acquirePage line 68, initialize line 15)
NeedsInit == initPromise = 0

\* `pages.length < this.maxPagesPerBrowser`
HasPageCapacity(n) == n < maxPagesPerBrowser

\* `this.browsers.length < this.maxBrowsers`
UnderBrowserLimit == Len(browsers) < maxBrowsers

\* indices >= i of this.browsers whose browser isConnected()
LiveFrom(i) == {j \in i..Len(browsers) : connected[browsers[j]]}

callerVars == <<pc, page, br, idx, wait, polling>>
worldVars == <<blankTabs, launched, connected, nPages, pageOwner, pageOpen, pageEpoch>>
initVars == <<initPromise, initState, initEpoch, nInit>>
sdVars == <<sdpc, sdPages, sdIdx>>
optVars == <<maxBrowsers, maxPagesPerBrowser>>

\* the caller's call ends by throwing
Throw(c) ==
  /\ pc' = [pc EXCEPT ![c] = "failed"]
  /\ page' = [page EXCEPT ![c] = 0]
  /\ br' = [br EXCEPT ![c] = 0]
  /\ idx' = [idx EXCEPT ![c] = 0]
  /\ wait' = [wait EXCEPT ![c] = 0]
  /\ polling' = [polling EXCEPT ![c] = FALSE]

\* history: a handle is handed out
Granted == grantedAfterFail' = (grantedAfterFail \/ failedReset # {})

\* lines 76-78: hand out an available page
TakeAvailable(c) ==
  /\ availablePages' = Pop(availablePages)
  /\ busyPages' = busyPages \cup {Last(availablePages)}
  /\ page' = [page EXCEPT ![c] = Last(availablePages)]
  /\ pc' = [pc EXCEPT ![c] = "holding"]
  /\ br' = [br EXCEPT ![c] = 0]
  /\ idx' = [idx EXCEPT ![c] = 0]
  /\ wait' = [wait EXCEPT ![c] = 0]
  /\ polling' = [polling EXCEPT ![c] = FALSE]
  /\ Granted

\* lines 82-121 from loop index i up to the next suspension point: the next
\* connected browser is asked for its pages; with none left, a browser is
\* launched if under the limit; otherwise the caller starts polling.
ScanFrom(c, i) ==
  /\ page' = [page EXCEPT ![c] = 0]
  /\ wait' = [wait EXCEPT ![c] = 0]
  /\ IF LiveFrom(i) # {}
       THEN /\ pc' = [pc EXCEPT ![c] = "pages"]
            /\ idx' = [idx EXCEPT ![c] = Min(LiveFrom(i))]
            /\ br' = [br EXCEPT ![c] = browsers[Min(LiveFrom(i))]]
            /\ polling' = [polling EXCEPT ![c] = FALSE]
       ELSE /\ idx' = [idx EXCEPT ![c] = 0]
            /\ br' = [br EXCEPT ![c] = 0]
            /\ IF UnderBrowserLimit
                 THEN /\ pc' = [pc EXCEPT ![c] = "launch"]
                      /\ polling' = [polling EXCEPT ![c] = FALSE]
                 ELSE /\ pc' = [pc EXCEPT ![c] = "waiting"]
                      /\ polling' = [polling EXCEPT ![c] = TRUE]

\* --------------------------------------------------------------- initialize
\* acquirePage lines 68-72 with initialize lines 14-34: the first caller
\* creates the init promise, whose body starts createBrowser(); every caller
\* then awaits this.initPromise.
Acquire(c) ==
  /\ pc[c] = "idle"
  /\ \A d \in Callers : d < c => pc[d] # "idle"   \* callers are numbered by arrival
  /\ IF NeedsInit
       THEN /\ nInit' = nInit + 1
            /\ initPromise' = nInit + 1
            /\ initState' = [initState EXCEPT ![nInit + 1] = "pending"]
            /\ initEpoch' = [initEpoch EXCEPT ![nInit + 1] = epoch]
            /\ wait' = [wait EXCEPT ![c] = nInit + 1]
       ELSE /\ wait' = [wait EXCEPT ![c] = initPromise]
            /\ UNCHANGED initVars
  /\ pc' = [pc EXCEPT ![c] = "awaitInit"]
  /\ callEpoch' = [callEpoch EXCEPT ![c] = epoch]
  /\ UNCHANGED <<page, br, idx, polling>>
  /\ UNCHANGED <<optVars, browsers, availablePages, busyPages, worldVars, epoch,
                 sdVars, failedReset, grantedAfterFail>>

\* initialize lines 22-30: createBrowser() of init promise k settles
InitLaunchDone(k, ok) ==
  /\ initState[k] = "pending"
  /\ IF ok
       THEN /\ launched' = launched + 1
            /\ connected' = [connected EXCEPT ![launched + 1] = TRUE]
            /\ browsers' = Append(browsers, launched + 1)
            /\ initState' = [initState EXCEPT ![k] = "resolved"]
       ELSE /\ initState' = [initState EXCEPT ![k] = "rejected"]
            /\ UNCHANGED <<launched, connected, browsers>>
  /\ UNCHANGED <<initPromise, initEpoch, nInit>>
  /\ UNCHANGED <<optVars, availablePages, busyPages, blankTabs, nPages, pageOwner,
                 pageOpen, pageEpoch, epoch, callerVars, sdVars, failedReset,
                 grantedAfterFail, callEpoch>>

\* ------------------------------------------------------------- acquirePage
\* lines 69/71 resume, then lines 74-121 up to the next suspension point
InitAwaited(c) ==
  /\ pc[c] = "awaitInit"
  /\ initState[wait[c]] \in {"resolved", "rejected"}
  /\ IF initState[wait[c]] = "rejected"
       THEN Throw(c) /\ UNCHANGED <<availablePages, busyPages, grantedAfterFail>>
       ELSE IF Len(availablePages) > 0
              THEN TakeAvailable(c)
              ELSE /\ ScanFrom(c, 1)
                   /\ UNCHANGED <<availablePages, busyPages, grantedAfterFail>>
  /\ UNCHANGED <<optVars, browsers, initVars, worldVars, epoch, sdVars, failedReset,
                 callEpoch>>

\* line 84 resumes: browser.pages() settles (it throws on a closed browser)
PagesDone(c) ==
  /\ pc[c] = "pages"
  /\ IF ~connected[br[c]]
       THEN Throw(c)
       ELSE IF HasPageCapacity(OpenPages(br[c]))
              THEN /\ pc' = [pc EXCEPT ![c] = "newPage"]
                   /\ UNCHANGED <<page, br, idx, wait, polling>>
              ELSE ScanFrom(c, idx[c] + 1)
  /\ UNCHANGED <<optVars, browsers, availablePages, busyPages, initVars, worldVars,
                 epoch, sdVars, failedReset, grantedAfterFail, callEpoch>>

\* lines 86 and 98 resume: browser.newPage() settles
NewPageDone(c) ==
  /\ pc[c] = "newPage"
  /\ IF ~connected[br[c]]
       THEN Throw(c) /\ UNCHANGED <<nPages, pageOwner, pageOpen, pageEpoch>>
       ELSE /\ nPages' = nPages + 1
            /\ pageOwner' = [pageOwner EXCEPT ![nPages + 1] = br[c]]
            /\ pageOpen' = [pageOpen EXCEPT ![nPages + 1] = TRUE]
            /\ pageEpoch' = [pageEpoch EXCEPT ![nPages + 1] = epoch]
            /\ page' = [page EXCEPT ![c] = nPages + 1]
            /\ pc' = [pc EXCEPT ![c] = "configure"]
            /\ UNCHANGED <<br, idx, wait, polling>>
  /\ UNCHANGED <<optVars, browsers, availablePages, busyPages, initVars, blankTabs,
                 launched, connected, epoch, sdVars, failedReset, grantedAfterFail,
                 callEpoch>>

\* lines 87-89 and 99-102 resume: configurePage() settles (it throws on a
\* closed page); the page becomes busy and is returned
ConfigureDone(c) ==
  /\ pc[c] = "configure"
  /\ IF ~pageOpen[page[c]]
       THEN Throw(c) /\ UNCHANGED <<busyPages, grantedAfterFail>>
       ELSE /\ busyPages' = busyPages \cup {page[c]}
            /\ pc' = [pc EXCEPT ![c] = "holding"]
            /\ br' = [br EXCEPT ![c] = 0]
            /\ idx' = [idx EXCEPT ![c] = 0]
            /\ UNCHANGED <<page, wait, polling>>
            /\ Granted
  /\ UNCHANGED <<optVars, browsers, availablePages, initVars, worldVars, epoch,
                 sdVars, failedReset, callEpoch>>

\* line 96 resumes: createBrowser() settles; lines 97-98
LaunchDone(c, ok) ==
  /\ pc[c] = "launch"
  /\ IF ok
       THEN /\ launched' = launched + 1
            /\ connected' = [connected EXCEPT ![launched + 1] = TRUE]
            /\ browsers' = Append(browsers, launched + 1)
            /\ pc' = [pc EXCEPT ![c] = "newPage"]
            /\ br' = [br EXCEPT ![c] = launched + 1]
            /\ UNCHANGED <<page, idx, wait, polling>>
       ELSE Throw(c) /\ UNCHANGED <<launched, connected, browsers>>
  /\ UNCHANGED <<optVars, availablePages, busyPages, initVars, blankTabs, nPages,
                 pageOwner, pageOpen, pageEpoch, epoch, sdVars, failedReset,
                 grantedAfterFail, callEpoch>>

\* lines 107-114: a tick of the caller's setInterval callback that finds an
\* available page (a tick that finds none changes nothing)
Poll(c) ==
  /\ polling[c]
  /\ Len(availablePages) > 0
  /\ availablePages' = Pop(availablePages)
  /\ busyPages' = busyPages \cup {Last(availablePages)}
  /\ polling' = [polling EXCEPT ![c] = FALSE]
  /\ IF pc[c] = "waiting"
       THEN /\ pc' = [pc EXCEPT ![c] = "holding"]
            /\ page' = [page EXCEPT ![c] = Last(availablePages)]
            /\ Granted
       ELSE UNCHANGED <<pc, page, grantedAfterFail>>
  /\ UNCHANGED <<br, idx, wait>>
  /\ UNCHANGED <<optVars, browsers, initVars, worldVars, epoch, sdVars, failedReset,
                 callEpoch>>

\* the same without clearInterval: reject only
Timeout_NoClear(c) ==
  /\ pc[c] = "waiting"
  /\ pc' = [pc EXCEPT ![c] = "timedout"]
  /\ UNCHANGED <<page, br, idx, wait, polling>>
  /\ UNCHANGED <<optVars, browsers, availablePages, busyPages, initVars, worldVars,
                 epoch, sdVars, failedReset, grantedAfterFail, callEpoch>>

\* lines 117-120: the caller's setTimeout fires: clearInterval, reject
Timeout(c) ==
  /\ pc[c] = "waiting"
  /\ polling' = [polling EXCEPT ![c] = FALSE]
  /\ pc' = [pc EXCEPT ![c] = "timedout"]
  /\ UNCHANGED <<page, br, idx, wait>>
  /\ UNCHANGED <<optVars, browsers, availablePages, busyPages, initVars, worldVars,
                 epoch, sdVars, failedReset, grantedAfterFail, callEpoch>>

\* ------------------------------------------------------------- releasePage
\* lines 167-173: busyPages.delete(page), then the reset is awaited
Release(c) ==
  /\ pc[c] = "holding"
  /\ busyPages' = busyPages \ {page[c]}
  /\ pc' = [pc EXCEPT ![c] = "releasing"]
  /\ UNCHANGED <<page, br, idx, wait, polling>>
  /\ UNCHANGED <<optVars, browsers, availablePages, initVars, worldVars, epoch,
                 sdVars, failedReset, grantedAfterFail, callEpoch>>

\* line 180: the available list after a reset that succeeded
AfterReset(p) == Append(availablePages, p)

\* the same with the push after the try/catch: the page is kept
AfterFailedReset_Push(p) == Append(availablePages, p)
\* lines 181-188: the available list after a reset that failed
AfterFailedReset(p) == availablePages

\* lines 174-188 resume: the reset settles; a closed page cannot be reset
ReleaseDone(c, ok) ==
  /\ pc[c] = "releasing"
  /\ ok => pageOpen[page[c]]
  /\ IF ok
       THEN /\ availablePages' = AfterReset(page[c])
            /\ UNCHANGED <<pageOpen, failedReset>>
       ELSE /\ availablePages' = AfterFailedReset(page[c])
            /\ pageOpen' = [pageOpen EXCEPT ![page[c]] = FALSE]
            /\ failedReset' = failedReset \cup {page[c]}
  /\ pc' = [pc EXCEPT ![c] = "done"]
  /\ page' = [page EXCEPT ![c] = 0]
  /\ UNCHANGED <<br, idx, wait, polling>>
  /\ UNCHANGED <<optVars, browsers, busyPages, initVars, blankTabs, launched,
                 connected, nPages, pageOwner, pageEpoch, epoch, sdVars,
                 grantedAfterFail, callEpoch>>

\* ---------------------------------------------------------------- shutdown
\* lines 227-229: the pool forgets its browsers and its initialization
ShutdownFinish ==
  /\ browsers' = <<>>
  /\ initPromise' = 0
  /\ epoch' = epoch + 1
  /\ sdpc' = "idle"
  /\ sdIdx' = 0

\* lines 215-221 after the last page of the snapshot was closed: both
\* collections are emptied, then the first browser.close() is awaited
ShutdownClear ==
  /\ availablePages' = <<>>
  /\ busyPages' = {}
  /\ IF Len(browsers) = 0
       THEN ShutdownFinish
       ELSE /\ sdpc' = "browsers"
            /\ sdIdx' = 1
            /\ UNCHANGED <<browsers, initPromise, epoch>>

\* lines 204-209: snapshot [...availablePages, ...busyPages]; the first
\* page.close() is awaited
ShutdownStart ==
  /\ sdpc = "idle"
  /\ epoch < MaxShutdowns
  /\ IF Range(availablePages) \cup busyPages = {}
       THEN /\ ShutdownClear
            /\ UNCHANGED sdPages
       ELSE /\ sdpc' = "pages"
            /\ sdPages' = Range(availablePages) \cup busyPages
            /\ UNCHANGED <<availablePages, busyPages, browsers, initPromise, epoch, sdIdx>>
  /\ UNCHANGED <<optVars, initState, initEpoch, nInit, worldVars, callerVars,
                 failedReset, grantedAfterFail, callEpoch>>

\* line 209 resumes: page.close() of a snapshot page settles (errors ignored)
ShutdownPageClosed(p) ==
  /\ sdpc = "pages"
  /\ p \in sdPages
  /\ pageOpen' = [pageOpen EXCEPT ![p] = FALSE]
  /\ sdPages' = sdPages \ {p}
  /\ IF sdPages = {p}
       THEN ShutdownClear
       ELSE UNCHANGED <<availablePages, busyPages, browsers, initPromise, epoch,
                        sdpc, sdIdx>>
  /\ UNCHANGED <<optVars, initState, initEpoch, nInit, blankTabs, launched, connected,
                 nPages, pageOwner, pageEpoch, callerVars, failedReset, grantedAfterFail, callEpoch>>

\* line 221 resumes: browser.close() settles; the browser and its pages are gone
ShutdownBrowserClosed ==
  /\ sdpc = "browsers"
  /\ connected' = [connected EXCEPT ![browsers[sdIdx]] = FALSE]
  /\ pageOpen' = [p \in PageIds |->
                    IF pageOwner[p] = browsers[sdIdx] THEN FALSE ELSE pageOpen[p]]
  /\ IF sdIdx < Len(browsers)
       THEN /\ sdIdx' = sdIdx + 1
            /\ UNCHANGED <<browsers, initPromise, epoch, sdpc>>
       ELSE ShutdownFinish
  /\ UNCHANGED <<optVars, availablePages, busyPages, initState, initEpoch, nInit,
                 blankTabs, launched, nPages, pageOwner, pageEpoch, callerVars,
                 sdPages, failedReset, grantedAfterFail, callEpoch>>

\* ------------------------------------------- releasePage, called once more
ReleaseIdle == again = {} /\ nAgain = 0

\* lines 167-173: releasePage(p) is called with a handle that was released
\* before, or is being released, and that no caller holds
ReleaseAgain(p) ==
  /\ nAgain < MaxAgain
  /\ pageOwner[p] # 0
  /\ p \notin busyPages
  /\ p \notin again
  /\ \A c \in Callers : page[c] = p => pc[c] = "releasing"
  /\ nAgain' = nAgain + 1
  /\ again' = again \cup {p}
  /\ busyPages' = busyPages \ {p}
  /\ UNCHANGED <<optVars, browsers, availablePages, initVars, worldVars, epoch,
                 callerVars, sdVars, failedReset, grantedAfterFail, callEpoch>>

\* lines 174-188 resume for that call
ReleaseAgainDone(p, ok) ==
  /\ p \in again
  /\ ok => pageOpen[p]
  /\ again' = again \ {p}
  /\ IF ok
       THEN /\ availablePages' = AfterReset(p)
            /\ UNCHANGED <<pageOpen, failedReset>>
       ELSE /\ availablePages' = AfterFailedReset(p)
            /\ pageOpen' = [pageOpen EXCEPT ![p] = FALSE]
            /\ failedReset' = failedReset \cup {p}
  /\ UNCHANGED <<optVars, browsers, busyPages, initVars, blankTabs, launched,
                 connected, nPages, pageOwner, pageEpoch, epoch, callerVars, sdVars,
                 grantedAfterFail, callEpoch, nAgain>>

\* ------------------------------------------------------------- the browsers
\* a launched browser crashes or is killed: browser.isConnected() is false
\* from then on and its pages are gone; the pool is not told (it registers
\* no 'disconnected' listener) and keeps the browser in this.browsers and
\* its pages in availablePages and busyPages
Disconnected(b) ==
  /\ b \in 1..launched
  /\ connected[b]
  /\ connected' = [connected EXCEPT ![b] = FALSE]
  /\ pageOpen' = [p \in PageIds |-> IF pageOwner[p] = b THEN FALSE ELSE pageOpen[p]]
  /\ UNCHANGED <<optVars, browsers, availablePages, busyPages, initVars, blankTabs,
                 launched, nPages, pageOwner, pageEpoch, epoch, callerVars, sdVars,
                 failedReset, grantedAfterFail, callEpoch>>

\* ======================================================================
\* retryAsync (src/src/browser-extractor.js lines 963-1001)
\* ======================================================================
NoError == [at |-> -1, status |-> -1]
NoResponse == 0      \* an error without `response` (network error, timeout)

\* what fn can raise: an error carrying response.status, or one without response
Statuses == {399, 400, 404, 408, 429, 499, 500, 503}
Failures == Statuses \cup {NoResponse}

\* options.retryDelay and options.backoffMultiplier (1/2, 1, 2, 3) tried
RetryDelays == {0, 1000}
Multipliers == {<<1, 2>>, <<1, 1>>, <<2, 1>>, <<3, 1>>}

RECURSIVE Pow(_, _)
Pow(b, n) == IF n = 0 THEN 1 ELSE b * Pow(b, n - 1)

\* the same without the exemption of 429 and 408
DontRetry_AnyClientError(e) ==
  /\ e.status # NoResponse
  /\ e.status >= 400 /\ e.status < 500

\* line 983: `if (status >= 400 && status < 500 && status !== 429 && status !== 408)`
\* under line 980 `if (error.response)`
DontRetry(e) ==
  /\ e.status # NoResponse
  /\ e.status >= 400 /\ e.status < 500 /\ e.status # 429 /\ e.status # 408

\* the same with the exponent one too high
WaitTime_NextExponent(a) ==
  (retryDelay * Pow(backoffMultiplier[1], a + 1)) \div Pow(backoffMultiplier[2], a + 1)

\* line 989: retryDelay * Math.pow(backoffMultiplier, attempt); the division
\* is exact for the delays and multipliers above
WaitTime(a) ==
  (retryDelay * Pow(backoffMultiplier[1], a)) \div Pow(backoffMultiplier[2], a)

\* the same keeping the first error once one is recorded
RecordError_First(e) == IF errs = <<>> THEN e ELSE errs[1]

\* line 977: lastError = error
RecordError(e) == e

\* what an observer does when called: return, or raise
Observers == {"none", "quiet", "throws"}
ObserverError == [at |-> -2, status |-> NoResponse]

\* the error fn raises when the server answers s: the request's own error
\* (error.response.status = s), or, in fetchHtml, a new Error that has the
\* status in its message only (extractor.js lines 133-141)
Raised(s) == IF site = "fetchHtml" THEN NoResponse ELSE s

RetryIdle ==
  /\ maxRetries = 0
  /\ retryDelay = 0
  /\ backoffMultiplier = <<1, 1>>
  /\ attempt = 0
  /\ rpc = "idle"
  /\ calls = 0
  /\ errs = <<>>
  /\ waits = <<>>
  /\ lastError = NoError
  /\ result = NoError
  /\ onRetry = "none"
  /\ notes = <<>>
  /\ site = "direct"
  /\ answers = <<>>
  /\ plain = [rpc |-> "idle", result |-> NoError, calls |-> 0]

\* lines 971-973: the call starts its first attempt
RetryStart ==
  /\ attempt = 0
  /\ rpc = "try"
  /\ calls = 0
  /\ errs = <<>>
  /\ waits = <<>>
  /\ lastError = NoError
  /\ result = NoError
  /\ notes = <<>>
  /\ answers = <<>>
  /\ plain = [rpc |-> "try", result |-> NoError, calls |-> 0]

\* retryAsync(fn, {maxRetries, retryDelay, backoffMultiplier, onRetry}) is
\* called with any observer
ObserverInit ==
  /\ maxRetries \in 0..MaxRetriesOpt
  /\ retryDelay \in RetryDelays
  /\ backoffMultiplier \in Multipliers
  /\ onRetry \in Observers
  /\ site = "direct"
  /\ RetryStart

\* the same with no observer or with one that returns
RetryInit == ObserverInit /\ onRetry # "throws"

\* extractor.js lines 113-151: fetchHtml's call of retryAsync (the default
\* backoffMultiplier; the observer logs)
FetchHtmlInit ==
  /\ maxRetries = 3
  /\ retryDelay = 1000
  /\ backoffMultiplier = <<2, 1>>
  /\ onRetry = "quiet"
  /\ site = "fetchHtml"
  /\ RetryStart

\* line 975: fn() resolves; its value is returned
AttemptSucceeds ==
  /\ rpc = "try"
  /\ calls' = calls + 1
  /\ rpc' = "returned"
  /\ result' = [at |-> attempt, status |-> 200]
  /\ answers' = Append(answers, 200)
  /\ plain' = [rpc |-> "returned", result |-> result', calls |-> calls + 1]
  /\ UNCHANGED <<maxRetries, retryDelay, backoffMultiplier, attempt, errs, waits,
                 lastError, onRetry, notes, site>>

\* lines 976-1000: fn() rejects with an error of status s
\* lines 979-1000 for the error e with the observer obs: where the call goes
\* (rpc, result), whether onRetry was called (noted), whether delay() was
\* (waited), whether the loop ran out (ended)
CatchStep(obs, e) ==
  IF DontRetry(e)
    THEN [rpc |-> "thrown", result |-> e, noted |-> FALSE, waited |-> FALSE,
          ended |-> FALSE]
    ELSE IF attempt < maxRetries
           THEN IF obs = "throws"
                  THEN [rpc |-> "thrown", result |-> ObserverError, noted |-> TRUE,
                        waited |-> FALSE, ended |-> FALSE]
                  ELSE [rpc |-> "delay", result |-> result, noted |-> obs # "none",
                        waited |-> TRUE, ended |-> FALSE]
           ELSE [rpc |-> "thrown", result |-> RecordError(e), noted |-> FALSE,
                 waited |-> FALSE, ended |-> TRUE]

AttemptFails(s) ==
  LET e == [at |-> attempt, status |-> Raised(s)]
      r == CatchStep(onRetry, e)
      p == CatchStep("none", e)
  IN
  /\ rpc = "try"
  /\ calls' = calls + 1
  /\ answers' = Append(answers, s)
  /\ errs' = Append(errs, e)
  /\ lastError' = RecordError(e)
  /\ rpc' = r.rpc
  /\ result' = r.result
  /\ notes' = IF r.noted
                THEN Append(notes, [n |-> attempt + 1, max |-> maxRetries,
                                    wait |-> WaitTime(attempt), err |-> e])
                ELSE notes
  /\ waits' = IF r.waited THEN Append(waits, WaitTime(attempt)) ELSE waits
  /\ attempt' = IF r.ended THEN attempt + 1 ELSE attempt
  /\ plain' = [rpc |-> p.rpc, result |-> p.result, calls |-> calls + 1]
  /\ UNCHANGED <<maxRetries, retryDelay, backoffMultiplier, onRetry, site>>

\* line 995 resumes: delay(waitTime) is over; the loop goes on
DelayDone ==
  /\ rpc = "delay"
  /\ attempt' = attempt + 1
  /\ rpc' = "try"
  /\ plain' = [plain EXCEPT !.rpc = "try"]
  /\ UNCHANGED <<maxRetries, retryDelay, backoffMultiplier, calls, errs, waits,
                 lastError, result, onRetry, notes, site, answers>>

RetryNext ==
  \/ AttemptSucceeds /\ UNCHANGED <<poolVars, dlVars, apiVars>>
  \/ (\E s \in Failures : AttemptFails(s)) /\ UNCHANGED <<poolVars, dlVars, apiVars>>
  \/ DelayDone /\ UNCHANGED <<poolVars, dlVars, apiVars>>

\* ======================================================================
\* Part 3: DownloadManager (src/unnamed/part_001)
\* ======================================================================
Downloads == 1..NDownloads
Items == 1..total                 \* mediaList of the downloadBulk call

\* options.concurrent and options.maxFileSize tried
ConcurrencyLimits == {1, 2}
SizeLimits == {1, 2}

\* what a GET is answered with: a status (NoResponse: no answer at all), and
\* with status 200 a Content-Length header (0: none or unparsable)
Lengths == {0, 1, 2, 3}
Answers == {<<200, len>> : len \in Lengths} \cup {<<404, 0>>, <<500, 0>>, <<NoResponse, 0>>}

NoResults == [completed |-> <<>>, failed |-> <<>>]
NoCrash == [by |-> 0, why |-> "", bytes |-> 0]
NoManifest == [totalFiles |-> -1, totalSize |-> -1, files |-> <<>>]

\* the same with one byte over the ceiling let through
TooLarge_OneOver(len) == len > maxFileSize + 1

\* line 54: contentLength > this.maxFileSize
TooLarge(len) == len > maxFileSize

\* line 48: validateStatus
ValidStatus(st) == st >= 200 /\ st < 400

\* isImageType(url): the urls of the odd calls are images, the others videos
TypeOf(d) == IF d % 2 = 1 THEN "image" ELSE "video"

\* line 220: `${download.type}s/${download.filename}`; the file of call d is
\* named after d
EntryName(d) == <<TypeOf(d) \o "s", d>>

\* the same test with the limit itself allowed
SlotsFull_Above == Cardinality(activeDownloads) > concurrent

\* lines 30 and 274: this.activeDownloads.size >= this.concurrent
SlotsFull == Cardinality(activeDownloads) >= concurrent

\* line 229: reduce((sum, d) => sum + d.size, 0)
RECURSIVE SumSizes(_)
SumSizes(s) == IF s = <<>> THEN 0 ELSE downloadedBytes[s[1]] + SumSizes(Tail(s))

DownloadIdle ==
  /\ concurrent = 1
  /\ maxFileSize = 1
  /\ progressCallback = "none"
  /\ activeDownloads = {}
  /\ completedDownloads = {}
  /\ failedDownloads = {}
  /\ dpc = [d \in Downloads |-> "idle"]
  /\ downloadedBytes = [d \in Downloads |-> 0]
  /\ fileExists = [d \in Downloads |-> FALSE]
  /\ dlError = [d \in Downloads |-> ""]
  /\ asked = [d \in Downloads |-> <<>>]
  /\ overDeclared = {}
  /\ crashed = NoCrash
  /\ total = 0
  /\ results = NoResults
  /\ bulkpc = "idle"
  /\ nCleanups = 0
  /\ zpc = "idle"
  /\ zipQueued = {}
  /\ zipEntries = {}
  /\ manifest = NoManifest
  /\ fileCount = -1

\* lines 14-24 and 134-144: a manager is built and downloadBulk is called
\* with a list of `total` items
DownloadStart ==
  /\ concurrent \in ConcurrencyLimits
  /\ maxFileSize \in SizeLimits
  /\ activeDownloads = {}
  /\ completedDownloads = {}
  /\ failedDownloads = {}
  /\ dpc = [d \in Downloads |-> "idle"]
  /\ downloadedBytes = [d \in Downloads |-> 0]
  /\ fileExists = [d \in Downloads |-> FALSE]
  /\ dlError = [d \in Downloads |-> ""]
  /\ asked = [d \in Downloads |-> <<>>]
  /\ overDeclared = {}
  /\ crashed = NoCrash
  /\ total \in 0..NDownloads
  /\ results = NoResults
  /\ bulkpc = "running"
  /\ nCleanups = 0
  /\ zpc = "idle"
  /\ zipQueued = {}
  /\ zipEntries = {}
  /\ manifest = NoManifest
  /\ fileCount = -1

\* progressCallback = null, the default of lines 26 and 134
DownloadInit == DownloadStart /\ progressCallback = "none"

\* the calls are given a progress callback, which returns or throws
ProgressInit == DownloadStart /\ progressCallback \in Observers \ {"none"}

zipVars == <<zpc, zipQueued, zipEntries, manifest, fileCount>>

\* lines 172-176: the item's failure is pushed to results.failed (the
\* callback of lines 178-186 comes last: if it throws, the item's promise
\* rejects, which Promise.allSettled takes)
AfterItemFailed(d) == [results EXCEPT !.failed = Append(@, d)]

\* lines 160-170: the item is pushed to results.completed and the callback
\* is called inside the try block: if it throws, the catch block of lines
\* 171-176 pushes the same item to results.failed
AfterItemCompleted(d) ==
  IF progressCallback = "throws"
    THEN [results EXCEPT !.completed = Append(@, d), !.failed = Append(@, d)]
    ELSE [results EXCEPT !.completed = Append(@, d)]

\* lines 126-130, and for an item of the bulk call lines 171-176: the call
\* throws err (its local downloadedBytes is gone)
Fails(d, err) ==
  /\ downloadedBytes' = [downloadedBytes EXCEPT ![d] = 0]
  /\ activeDownloads' = activeDownloads \ {d}
  /\ failedDownloads' = failedDownloads \cup {d}
  /\ dlError' = [dlError EXCEPT ![d] = err]
  /\ dpc' = [dpc EXCEPT ![d] = "threw"]
  /\ results' = IF d \in Items THEN AfterItemFailed(d) ELSE results

\* the process is running
Alive == crashed = NoCrash

\* An exception leaves an event listener of call d after n bytes: nothing
\* catches it and the process dies with all it holds in memory (no call goes
\* on, nothing is recorded). The files stay; an fs.unlink requested just
\* before (unlinkAsked) may or may not have been done.
Crash(d, why, n, unlinkAsked) ==
  /\ crashed' = [by |-> d, why |-> why, bytes |-> n]
  /\ \E gone \in {FALSE, unlinkAsked} :
       fileExists' = [fileExists EXCEPT ![d] = IF gone THEN FALSE ELSE @]
  /\ activeDownloads' = {}
  /\ completedDownloads' = {}
  /\ failedDownloads' = {}
  /\ dpc' = [e \in Downloads |-> "dead"]
  /\ downloadedBytes' = [e \in Downloads |-> 0]
  /\ dlError' = [e \in Downloads |-> ""]
  /\ asked' = [e \in Downloads |-> <<>>]
  /\ overDeclared' = {}
  /\ results' = NoResults
  /\ bulkpc' = "dead"
  /\ zpc' = "dead"
  /\ zipQueued' = {}
  /\ zipEntries' = {}
  /\ manifest' = NoManifest
  /\ fileCount' = -1
  /\ UNCHANGED <<concurrent, maxFileSize, progressCallback, total, nCleanups>>

\* lines 27-36: downloadFile is called (the items of the bulk call in the
\* order of their stagger delays, line 146; the other calls are numbered by
\* arrival)
StartDownload(d) ==
  /\ Alive
  /\ dpc[d] = "idle"
  /\ \A e \in Downloads : (e < d /\ (e \in Items <=> d \in Items)) => dpc[e] # "idle"
  /\ IF SlotsFull
       THEN /\ dpc' = [dpc EXCEPT ![d] = "slotWait"]
            /\ UNCHANGED activeDownloads
       ELSE /\ dpc' = [dpc EXCEPT ![d] = "request"]
            /\ activeDownloads' = activeDownloads \cup {d}
  /\ UNCHANGED <<concurrent, maxFileSize, completedDownloads, failedDownloads,
                 downloadedBytes, fileExists, dlError, asked, overDeclared, progressCallback, crashed, total,
                 results, bulkpc, nCleanups, zipVars>>

\* lines 274-276: the delay(100) of waitForSlot is over and the loop finds a
\* free slot (a tick that finds none changes nothing); waitForSlot returns
SlotTick(d) ==
  /\ Alive
  /\ dpc[d] = "slotWait"
  /\ ~SlotsFull
  /\ dpc' = [dpc EXCEPT ![d] = "slotFree"]
  /\ UNCHANGED <<concurrent, maxFileSize, activeDownloads, completedDownloads,
                 failedDownloads, downloadedBytes, fileExists, dlError, asked, overDeclared, progressCallback,
                 crashed, total, results, bulkpc, nCleanups, zipVars>>

\* line 31 resumes: lines 34-36
Admitted(d) ==
  /\ Alive
  /\ dpc[d] = "slotFree"
  /\ dpc' = [dpc EXCEPT ![d] = "request"]
  /\ activeDownloads' = activeDownloads \cup {d}
  /\ UNCHANGED <<concurrent, maxFileSize, completedDownloads, failedDownloads,
                 downloadedBytes, fileExists, dlError, asked, overDeclared, progressCallback, crashed, total,
                 results, bulkpc, nCleanups, zipVars>>

\* line 36 resumes: the GET is answered with status st and declared length
\* len; lines 51-106
Responded(d, st, len) ==
  /\ Alive
  /\ dpc[d] = "request"
  /\ asked' = [asked EXCEPT ![d] = Append(@, st)]
  /\ overDeclared' = IF ValidStatus(st) /\ len > maxFileSize
                       THEN overDeclared \cup {d}
                       ELSE overDeclared
  /\ IF ~ValidStatus(st)
       THEN /\ Fails(d, IF st = NoResponse THEN "network" ELSE "http")
            /\ UNCHANGED fileExists
       ELSE IF TooLarge(len)
              THEN /\ Fails(d, "too large")
                   /\ UNCHANGED fileExists
              ELSE /\ fileExists' = [fileExists EXCEPT ![d] = TRUE]
                   /\ dpc' = [dpc EXCEPT ![d] = "stream"]
                   /\ UNCHANGED <<activeDownloads, failedDownloads, dlError, results,
                                  downloadedBytes>>
  /\ UNCHANGED <<concurrent, maxFileSize, progressCallback, completedDownloads,
                 crashed, total, bulkpc, nCleanups, zipVars>>

\* lines 72-92: the 'data' listener gets a chunk of one byte and calls the
\* callback; over the ceiling it destroys the write stream, asks for the
\* unlink and throws
Chunk(d) ==
  /\ Alive
  /\ dpc[d] = "stream"
  /\ IF progressCallback = "throws"
       THEN Crash(d, "callback", downloadedBytes[d] + 1, FALSE)
       ELSE IF downloadedBytes[d] + 1 > maxFileSize
       THEN Crash(d, "too large", downloadedBytes[d] + 1, TRUE)
       ELSE /\ downloadedBytes' = [downloadedBytes EXCEPT ![d] = @ + 1]
            /\ UNCHANGED <<concurrent, maxFileSize, activeDownloads,
                           completedDownloads, failedDownloads, dpc, fileExists,
                           dlError, asked, overDeclared, progressCallback, crashed, total, results, bulkpc,
                           nCleanups, zipVars>>

\* lines 94-98: the first 'error' listener of the response stream destroys
\* the write stream, asks for the unlink and throws; the listener of line 105
\* is not reached
StreamError(d) ==
  /\ Alive
  /\ dpc[d] = "stream"
  /\ Crash(d, "stream error", downloadedBytes[d], TRUE)

\* line 104: the write stream fails; the promise of line 102 rejects
WriteError(d) ==
  /\ Alive
  /\ dpc[d] = "stream"
  /\ Fails(d, "write")
  /\ UNCHANGED <<concurrent, maxFileSize, completedDownloads, fileExists, asked, overDeclared, progressCallback,
                 crashed, total, bulkpc, nCleanups, zipVars>>

\* line 103: the write stream finishes; lines 108-124, and for an item of
\* the bulk call line 160
Finished(d) ==
  /\ Alive
  /\ dpc[d] = "stream"
  /\ fileExists[d]
  /\ completedDownloads' = completedDownloads \cup {d}
  /\ activeDownloads' = activeDownloads \ {d}
  /\ dpc' = [dpc EXCEPT ![d] = "returned"]
  /\ results' = IF d \in Items THEN AfterItemCompleted(d) ELSE results
  /\ UNCHANGED <<concurrent, maxFileSize, failedDownloads, downloadedBytes,
                 fileExists, dlError, asked, overDeclared, progressCallback, crashed, total, bulkpc, nCleanups,
                 zipVars>>

\* lines 190-195: every item has settled; downloadBulk returns results
BulkReturns ==
  /\ Alive
  /\ bulkpc = "running"
  /\ \A d \in Items : dpc[d] \in {"returned", "threw"}
  /\ bulkpc' = "returned"
  /\ UNCHANGED <<concurrent, maxFileSize, activeDownloads, completedDownloads,
                 failedDownloads, dpc, downloadedBytes, fileExists, dlError, asked, overDeclared, progressCallback,
                 crashed, total, results, nCleanups, zipVars>>

\* lines 294-311: cleanupJob(jobId), M being the calls whose url includes
\* jobId: their files are unlinked and their records deleted
CleanupJob(M) ==
  /\ Alive
  /\ nCleanups < MaxCleanups
  /\ M \cap (completedDownloads \cup failedDownloads) # {}
  /\ nCleanups' = nCleanups + 1
  /\ fileExists' = [d \in Downloads |->
                      IF d \in M \cap completedDownloads THEN FALSE ELSE fileExists[d]]
  /\ completedDownloads' = completedDownloads \ M
  /\ failedDownloads' = failedDownloads \ M
  /\ UNCHANGED <<concurrent, maxFileSize, activeDownloads, dpc, downloadedBytes,
                 dlError, asked, overDeclared, progressCallback, crashed, total, results, bulkpc, zipVars>>

\* lines 198-240: createZipArchive(results, jobId) queues the files that
\* exist and appends the manifest
ZipStarts ==
  /\ Alive
  /\ bulkpc = "returned"
  /\ zpc = "idle"
  /\ zpc' = "open"
  /\ zipQueued' = {d \in Range(results.completed) : fileExists[d]}
  /\ manifest' = [totalFiles |-> Len(results.completed),
                  totalSize |-> SumSizes(results.completed),
                  files |-> results.completed]
  /\ UNCHANGED <<zipEntries, fileCount>>
  /\ UNCHANGED <<concurrent, maxFileSize, activeDownloads, completedDownloads,
                 failedDownloads, dpc, downloadedBytes, fileExists, dlError, asked, overDeclared, progressCallback,
                 crashed, total, results, bulkpc, nCleanups>>

\* lines 204-211: the output closes and the promise resolves; a queued file
\* that was removed meanwhile is in the archive only if it was read before
ZipCloses(E) ==
  /\ Alive
  /\ zpc = "open"
  /\ {d \in zipQueued : fileExists[d]} \subseteq E
  /\ zpc' = "closed"
  /\ zipEntries' = {EntryName(d) : d \in E}
  /\ fileCount' = Len(results.completed)
  /\ UNCHANGED <<zipQueued, manifest>>
  /\ UNCHANGED <<concurrent, maxFileSize, activeDownloads, completedDownloads,
                 failedDownloads, dpc, downloadedBytes, fileExists, dlError, asked, overDeclared, progressCallback,
                 crashed, total, results, bulkpc, nCleanups>>

\* the continuation of a downloadFile call whose waitForSlot() has returned
\* is in the microtask queue, which is drained before any timer or I/O
\* callback runs
SlotMicrotaskReady == \E d \in Downloads : dpc[d] = "slotFree"

Soon(A) == SlotMicrotaskReady /\ A /\ UNCHANGED <<poolVars, retryVars, apiVars>>
Later(A) == ~SlotMicrotaskReady /\ A /\ UNCHANGED <<poolVars, retryVars, apiVars>>

\* downloadFile calls and the downloadBulk call
BulkNext ==
  \/ \E d \in Downloads : Soon(Admitted(d))
  \/ \E d \in Downloads : Later(StartDownload(d))
  \/ \E d \in Downloads : Later(SlotTick(d))
  \/ \E d \in Downloads, a \in Answers : Later(Responded(d, a[1], a[2]))
  \/ \E d \in Downloads : Later(Chunk(d))
  \/ \E d \in Downloads : Later(StreamError(d))
  \/ \E d \in Downloads : Later(WriteError(d))
  \/ \E d \in Downloads : Later(Finished(d))
  \/ Later(BulkReturns)

\* cleanupJob and createZipArchive calls
ArchiveNext ==
  \/ \E M \in SUBSET Downloads : Later(CleanupJob(M))
  \/ Later(ZipStarts)
  \/ \E E \in SUBSET Downloads : Later(E \subseteq zipQueued /\ ZipCloses(E))

DownloadNext == BulkNext \/ ArchiveNext

\* ======================================================================
\* Part 4: the job registry and the routes (src/src/browser-extractor.js,
\* lines 371-699)
\* ======================================================================
\* documented limits of the two maps, and the limit of line 534
ActiveCeiling == 50
CompletedCeiling == 100
MaxFiles == 100

Requests == 1..NRequests

\* job ids: createJobId() gives request r an id of its own, <<"job", r>>;
\* a bulk download asked for jobId <<"job", x>> runs under `bulk_${jobId}`,
\* <<"bulk", x>>
NoKey == <<"none", 0>>
JobKeys == {<<"job", x>> : x \in Requests}
BulkKeys == {<<"bulk", x>> : x \in Requests}
Keys == JobKeys \cup BulkKeys

\* mediaUrls.length of the requests followed
ListLengths == {0, 1, 2, MaxFiles, MaxFiles + 1}

\* results.failed.length of a list of len urls: none, one or all fail
FailedCounts(len) == {0, 1, len} \cap 0..len

NoJob == [status |-> "none", by |-> 0, error |-> "", completed |-> 0, failed |-> 0,
          raised |-> FALSE]
NoRecords == [completed |-> 0, failed |-> 0]

\* activeJobs.size and jobResults.size
ActiveSize == Cardinality({k \in Keys : activeJobs[k] # "absent"}) + otherActive
ResultsSize == Cardinality({k \in Keys : jobResults[k] # NoJob}) + otherResults

RegistryIdle ==
  /\ activeJobs = [k \in Keys |-> "absent"]
  /\ jobResults = [k \in Keys |-> NoJob]
  /\ jpc = [r \in Requests |-> "idle"]
  /\ jkey = [r \in Requests |-> NoKey]
  /\ jlen = [r \in Requests |-> 0]
  /\ jbad = [r \in Requests |-> 0]
  /\ answer = [r \in Requests |-> ""]
  /\ records = [r \in Requests |-> NoRecords]
  /\ files = [r \in Requests |-> 0]
  /\ zipOnDisk = [k \in Keys |-> 0]
  /\ died = 0
  /\ nApiCleanups = 0
  /\ otherActive = 0
  /\ otherResults = 0

\* the same with the limit itself refused
TooManyFiles_AtLimit(len) == len >= MaxFiles

\* line 534: mediaUrls.length > 100
TooManyFiles(len) == len > MaxFiles

\* lines 385-409: POST /extract with a url that isValidUrl accepts or not
ExtractRequested(r, valid) ==
  /\ died = 0
  /\ jpc[r] = "idle"
  /\ IF ~valid
       THEN /\ answer' = [answer EXCEPT ![r] = "invalid url"]
            /\ jpc' = [jpc EXCEPT ![r] = "rejected"]
            /\ UNCHANGED <<activeJobs, jkey>>
       ELSE /\ activeJobs' = [activeJobs EXCEPT ![<<"job", r>>] = "extracting"]
            /\ jkey' = [jkey EXCEPT ![r] = <<"job", r>>]
            /\ answer' = [answer EXCEPT ![r] = "started"]
            /\ jpc' = [jpc EXCEPT ![r] = "extracting"]
  /\ UNCHANGED <<jobResults, jlen, jbad, records, files, zipOnDisk, died,
                 nApiCleanups, otherActive, otherResults>>

\* lines 411-436: extractMedia settles. out = "found": it returns its
\* results; "caught": the pipeline raised and extractMedia caught it
\* (extractor.js lines 103-108), and returns its results with the error in
\* results.errors; "threw": extractMedia throws (validateMediaFilters on
\* filters = null, extractor.js line 23, outside its try block)
ExtractSettled(r, out) ==
  /\ died = 0
  /\ jpc[r] = "extracting"
  /\ activeJobs' = [activeJobs EXCEPT ![jkey[r]] = "absent"]
  /\ jobResults' = [jobResults EXCEPT ![jkey[r]] =
       IF out = "threw"
         THEN [NoJob EXCEPT !.status = "failed", !.by = r, !.error = "filters",
                            !.raised = TRUE]
         ELSE [NoJob EXCEPT !.status = "completed", !.by = r,
                            !.raised = (out = "caught")]]
  /\ jpc' = [jpc EXCEPT ![r] = "done"]
  /\ UNCHANGED <<jkey, jlen, jbad, answer, records, files, zipOnDisk, died,
                 nApiCleanups, otherActive, otherResults>>

\* lines 523-568: POST /download-bulk for the job id <<"job", x>> with a
\* list of len urls; downloadBulk is called with the list
BulkRequested(r, x, len) ==
  /\ died = 0
  /\ jpc[r] = "idle"
  /\ jlen' = [jlen EXCEPT ![r] = len]
  /\ IF len = 0 \/ TooManyFiles(len)
       THEN /\ answer' = [answer EXCEPT ![r] =
                            IF len = 0 THEN "invalid request" ELSE "too many files"]
            /\ jpc' = [jpc EXCEPT ![r] = "rejected"]
            /\ UNCHANGED <<activeJobs, jkey>>
       ELSE /\ activeJobs' = [activeJobs EXCEPT ![<<"bulk", x>>] = "downloading"]
            /\ jkey' = [jkey EXCEPT ![r] = <<"bulk", x>>]
            /\ answer' = [answer EXCEPT ![r] = "started"]
            /\ jpc' = [jpc EXCEPT ![r] = "downloading"]
  /\ UNCHANGED <<jobResults, jbad, records, files, zipOnDisk, died, nApiCleanups,
                 otherActive, otherResults>>

\* lines 557-570: downloadBulk returns results with bad failed items, the
\* manager holding a record of every item; createZipArchive is called and
\* opens the archive file (part_001 lines 199-200)
BulkDownloaded(r, bad) ==
  /\ died = 0
  /\ jpc[r] = "downloading"
  /\ jbad' = [jbad EXCEPT ![r] = bad]
  /\ records' = [records EXCEPT ![r] = [completed |-> jlen[r] - bad, failed |-> bad]]
  /\ files' = [files EXCEPT ![r] = jlen[r] - bad]
  /\ zipOnDisk' = [zipOnDisk EXCEPT ![jkey[r]] = r]
  /\ jpc' = [jpc EXCEPT ![r] = "zipping"]
  /\ UNCHANGED <<activeJobs, jobResults, jkey, jlen, answer, died, nApiCleanups,
                 otherActive, otherResults>>

\* part_001 lines 72-98: the response stream of an item errors, or passes
\* the size ceiling: the listener throws and the process dies with the maps
\* it holds
BulkDied(r) ==
  /\ died = 0
  /\ jpc[r] = "downloading"
  /\ died' = r
  /\ activeJobs' = [k \in Keys |-> "absent"]
  /\ jobResults' = [k \in Keys |-> NoJob]
  /\ jpc' = [q \in Requests |-> IF jpc[q] \in {"extracting", "downloading", "zipping"}
                                   THEN "dead" ELSE jpc[q]]
  /\ records' = [q \in Requests |-> NoRecords]
  /\ otherActive' = 0
  /\ otherResults' = 0
  /\ UNCHANGED <<jkey, jlen, jbad, answer, files, zipOnDisk, nApiCleanups>>

\* lines 570-588: createZipArchive resolves, or rejects with the archiver's
\* error (part_001 line 214)
ZipSettled(r, ok) ==
  /\ died = 0
  /\ jpc[r] = "zipping"
  /\ activeJobs' = [activeJobs EXCEPT ![jkey[r]] = "absent"]
  /\ jobResults' = [jobResults EXCEPT ![jkey[r]] =
       IF ok
         THEN [NoJob EXCEPT !.status = "completed", !.by = r,
                            !.completed = jlen[r] - jbad[r], !.failed = jbad[r]]
         ELSE [NoJob EXCEPT !.status = "failed", !.by = r, !.error = "archive",
                            !.raised = TRUE]]
  /\ jpc' = [jpc EXCEPT ![r] = "done"]
  /\ UNCHANGED <<jkey, jlen, jbad, answer, records, files, zipOnDisk, died,
                 nApiCleanups, otherActive, otherResults>>

\* lines 624-636 and part_001 lines 294-318: DELETE /cleanup/k, M being the
\* requests whose urls include the text of k
CleanupRequested(k, M) ==
  /\ died = 0
  /\ nApiCleanups < MaxCleanups
  /\ nApiCleanups' = nApiCleanups + 1
  /\ activeJobs' = [activeJobs EXCEPT ![k] = "absent"]
  /\ jobResults' = [jobResults EXCEPT ![k] = NoJob]
  /\ records' = [q \in Requests |-> IF q \in M THEN NoRecords ELSE records[q]]
  /\ files' = [q \in Requests |-> IF q \in M THEN 0 ELSE files[q]]
  /\ zipOnDisk' = [zipOnDisk EXCEPT ![k] = 0]
  /\ UNCHANGED <<jpc, jkey, jlen, jbad, answer, died, otherActive, otherResults>>

\* lines 396-402 and 541-547: another request creates a job
OtherJobRequested ==
  /\ died = 0
  /\ otherActive + otherResults < MaxOtherJobs
  /\ otherActive' = otherActive + 1
  /\ UNCHANGED <<activeJobs, jobResults, jpc, jkey, jlen, jbad, answer, records,
                 files, zipOnDisk, died, nApiCleanups, otherResults>>

\* lines 420-435 and 572-587: the job of another request ends
OtherJobSettled ==
  /\ died = 0
  /\ otherActive > 0
  /\ otherActive' = otherActive - 1
  /\ otherResults' = otherResults + 1
  /\ UNCHANGED <<activeJobs, jobResults, jpc, jkey, jlen, jbad, answer, records,
                 files, zipOnDisk, died, nApiCleanups>>

\* lines 629 and 685-695: the result of another request is cleaned up, on
\* request or two hours after its completion
OtherJobRemoved ==
  /\ died = 0
  /\ otherResults > 0
  /\ otherResults' = otherResults - 1
  /\ UNCHANGED <<activeJobs, jobResults, jpc, jkey, jlen, jbad, answer, records,
                 files, zipOnDisk, died, nApiCleanups, otherActive>>

Api(A) == A /\ UNCHANGED <<poolVars, retryVars, dlVars, exVars, fnVars, nameVars, sweepVars, relVars>>

\* the requests followed one by one
JobNext ==
  \/ \E r \in Requests, valid \in BOOLEAN : Api(ExtractRequested(r, valid))
  \/ \E r \in Requests, out \in {"found", "caught", "threw"} : Api(ExtractSettled(r, out))
  \/ \E r, x \in Requests, len \in ListLengths : Api(BulkRequested(r, x, len))
  \/ \E r \in Requests : \E bad \in FailedCounts(jlen[r]) : Api(BulkDownloaded(r, bad))
  \/ \E r \in Requests : Api(BulkDied(r))
  \/ \E r \in Requests, ok \in BOOLEAN : Api(ZipSettled(r, ok))
  \/ \E k \in Keys, M \in SUBSET Requests : Api(CleanupRequested(k, M))

\* ---------------------------------------------------- the periodic sweep
SweepIdle == old = {} /\ nSweeps = 0

\* an entry stored anew carries a new completedAt (lines 425 and 434)
StillOld == {k \in old : jobResults'[k] = jobResults[k]}

\* the handlers while time is followed
Timed(A) ==
  /\ A
  /\ old' = StillOld
  /\ UNCHANGED <<nSweeps, poolVars, retryVars, dlVars, exVars, fnVars, nameVars, relVars>>

\* two hours pass since the entry of k was stored (line 684)
Aged(k) ==
  /\ died = 0
  /\ jobResults[k] # NoJob
  /\ k \notin old
  /\ old' = old \cup {k}
  /\ UNCHANGED <<regVars, nSweeps>>

\* lines 683-697: cleanupOldJobs runs; every entry older than the cutoff is
\* deleted and cleanupJob is called with its key, M being the requests whose
\* urls include the text of one of these keys (part_001 lines 294-318)
CleanupOldJobs(M) ==
  /\ died = 0
  /\ nSweeps < MaxSweeps
  /\ old = {} => M = {}
  /\ nSweeps' = nSweeps + 1
  /\ jobResults' = [k \in Keys |-> IF k \in old THEN NoJob ELSE jobResults[k]]
  /\ records' = [q \in Requests |-> IF q \in M THEN NoRecords ELSE records[q]]
  /\ files' = [q \in Requests |-> IF q \in M THEN 0 ELSE files[q]]
  /\ zipOnDisk' = [k \in Keys |-> IF k \in old THEN 0 ELSE zipOnDisk[k]]
  /\ old' = {}
  /\ UNCHANGED <<activeJobs, jpc, jkey, jlen, jbad, answer, died, nApiCleanups,
                 otherActive, otherResults>>

Sweep(A) == A /\ UNCHANGED <<poolVars, retryVars, dlVars, exVars, fnVars, nameVars, relVars>>

SweepNext ==
  \/ \E r \in Requests, valid \in BOOLEAN : Timed(ExtractRequested(r, valid))
  \/ \E r \in Requests, out \in {"found", "caught", "threw"} : Timed(ExtractSettled(r, out))
  \/ \E r, x \in Requests, len \in ListLengths : Timed(BulkRequested(r, x, len))
  \/ \E r \in Requests : \E bad \in FailedCounts(jlen[r]) : Timed(BulkDownloaded(r, bad))
  \/ \E r \in Requests, ok \in BOOLEAN : Timed(ZipSettled(r, ok))
  \/ \E k \in Keys : Sweep(Aged(k))
  \/ \E M \in SUBSET Requests : Sweep(CleanupOldJobs(M))

\* the handlers up to their answer
RequestNext ==
  \/ \E r \in Requests, valid \in BOOLEAN : Api(ExtractRequested(r, valid))
  \/ \E r, x \in Requests, len \in ListLengths : Api(BulkRequested(r, x, len))

\* the other requests, by their number
RegistryNext ==
  \/ Api(OtherJobRequested)
  \/ Api(OtherJobSettled)
  \/ Api(OtherJobRemoved)

\* ======================================================================
\* Part 5: one extraction, from the request to the media list
\* (src/src/extractor.js, src/src/browser-extractor.js)
\* ======================================================================
\* A url is followed by what the code looks at: its scheme, its host, whether
\* it carries credentials, the kind of the extension of its path (lines
\* 811-820) and whether its text matches one of the patterns of lines 830-834
Schemes == {"https", "file"}
Hosts == {[name |-> "example.com", ip |-> <<>>],
          [name |-> "localhost", ip |-> <<>>],
          [name |-> "", ip |-> <<10, 0, 0, 1>>],
          [name |-> "", ip |-> <<169, 254, 169, 254>>]}
Extensions == {"image", "video", "none"}

\* the urls asked for, and the urls a page can hold
Targets == [scheme : Schemes, host : Hosts, creds : BOOLEAN, ext : {"none"},
            pattern : {FALSE}]
PageUrls == [scheme : {"https"},
             host : {h \in Hosts : h.name = "example.com" \/ h.ip = <<10, 0, 0, 1>>},
             creds : {FALSE}, ext : Extensions, pattern : BOOLEAN]

\* filters.includeImages and filters.includeVideos as sent
FlagValues == {"true", "false", "absent"}

\* a size as sent: absent, a number, a text of digits ("5000"), a number or
\* text with a fraction or a unit after its digits (1.5, "5000px"), of which
\* parseInt reads the digits n, or a text without leading digits ("abc")
Absent == [kind |-> "absent", n |-> 0]
SizeValues == {Absent, [kind |-> "text", n |-> 0]}
                \cup [kind : {"number", "digits", "prefix"}, n : {-5, 0, 1, 5000}]
Infinity == [inf |-> TRUE, n |-> 0]
Finite(n) == [inf |-> FALSE, n |-> n]

RawFilters == [includeImages : FlagValues, includeVideos : FlagValues,
               minSizeBytes : {Absent}, maxSizeBytes : {Absent}]

\* the arguments of validateMediaFilters: null, or an object whose flags may
\* also hold a value that is not a boolean (0, "false")
Null == [includeImages |-> "null", includeVideos |-> "null",
         minSizeBytes |-> Absent, maxSizeBytes |-> Absent]
FilterInputs ==
  {Null} \cup [includeImages : FlagValues \cup {"other"}, includeVideos : FlagValues \cup {"other"},
               minSizeBytes : SizeValues, maxSizeBytes : SizeValues]
NoFilters == [includeImages |-> "absent", includeVideos |-> "absent",
              minSizeBytes |-> Absent, maxSizeBytes |-> Absent]

\* parseInt(v) is NaN, or else the integer ParseInt(v)
IsNaN(v) == v.kind \in {"absent", "text"}
ParseInt(v) == v.n

\* lines 709-716
IsValidUrl(u) == u.scheme \in {"http", "https"}

\* lines 718-750, for a host name or an IPv4 address
IsPrivateIP(h) ==
  \/ h.name = "localhost"
  \/ /\ h.ip # <<>>
     /\ \/ h.ip[1] = 10
        \/ h.ip[1] = 172 /\ h.ip[2] \in 16..31
        \/ h.ip[1] = 192 /\ h.ip[2] = 168
        \/ h.ip[1] = 169 /\ h.ip[2] = 254
        \/ h.ip[1] = 127

\* lines 752-791
IsSafeUrl(u) ==
  /\ IsValidUrl(u)
  /\ ~IsPrivateIP(u.host)
  /\ ~u.creds
  /\ u.host.name # "metadata.google.internal"
  /\ u.host.ip # <<169, 254, 169, 254>>

\* lines 822-847
IsSupportedMediaType(u) == u.ext # "none" \/ u.pattern
IsImageType(u) == u.ext = "image"
IsVideoType(u) == u.ext = "video"

\* lines 935-949
ValidateMediaFilters(f) ==
  LET images == f.includeImages # "false"
      videos == f.includeVideos # "false"
      low == IF IsNaN(f.minSizeBytes) \/ ParseInt(f.minSizeBytes) = 0
               THEN 0 ELSE ParseInt(f.minSizeBytes)
      minSize == IF low > 0 THEN low ELSE 0
      maxSize == IF IsNaN(f.maxSizeBytes) \/ ParseInt(f.maxSizeBytes) = 0
                   THEN Infinity ELSE Finite(ParseInt(f.maxSizeBytes))
      both == ~images /\ ~videos
  IN [includeImages |-> IF both THEN TRUE ELSE images,
      includeVideos |-> IF both THEN TRUE ELSE videos,
      minSizeBytes |-> minSize,
      maxSizeBytes |-> maxSize]

\* extractor.js lines 334-342, browser-extractor.js lines 341-349
ShouldIncludeByType(u, f) ==
  /\ ~(IsImageType(u) /\ ~f.includeImages)
  /\ ~(IsVideoType(u) /\ ~f.includeVideos)

\* extractor.js lines 358-365 and 368-375, browser-extractor.js lines 353-360
MediaInfo(u) == [url |-> u, type |-> IF IsImageType(u) THEN "image" ELSE "video"]

\* where a url is found: by the cheerio extractor in an element attribute
\* (lines 327-332), in css text (lines 252-288) or in the html text (lines
\* 419-450); by the browser extractor in the DOM (lines 152-153) or among
\* the responses of the page (lines 106-116 and 158-162)
Sources == {"element", "css", "html", "dom", "network"}

\* the url u found at src is added to mediaUrls. In the html text the type
\* test is made on the reference as written (line 437): of a relative
\* reference getFileExtension gives null, so the test lets it through
Kept(u, src, relative) ==
  LET f == ValidateMediaFilters(xfilters)
  IN CASE src = "dom" -> TRUE
       [] src = "network" -> ShouldIncludeByType(u, f)
       [] src = "html" /\ relative -> IsSupportedMediaType(u)
       [] OTHER -> IsSupportedMediaType(u) /\ ShouldIncludeByType(u, f)

ExtractIdle ==
  /\ xpc = "idle"
  /\ xkind = "cheerio"
  /\ xtarget = CHOOSE u \in Targets : IsSafeUrl(u)
  /\ xfilters = NoFilters
  /\ mediaUrls = {}
  /\ pending = {}
  /\ media = {}
  /\ xerrors = 0
  /\ fetches = {}

\* a POST /extract request arrives
ExtractInit ==
  /\ xpc = "idle"
  /\ xkind \in {"cheerio", "browser"}
  /\ xtarget \in Targets
  /\ xfilters \in RawFilters
  /\ mediaUrls = {}
  /\ pending = {}
  /\ media = {}
  /\ xerrors = 0
  /\ fetches = {}

\* browser-extractor.js lines 385-412 and extractor.js lines 38-45 (browser:
\* lines 38-125): the url is tested with isValidUrl and the page is asked for
PageRequested ==
  /\ xpc = "idle"
  /\ IF IsValidUrl(xtarget)
       THEN /\ fetches' = fetches \cup {[what |-> "page", url |-> xtarget]}
            /\ xpc' = "fetching"
       ELSE /\ xpc' = "rejected"
            /\ UNCHANGED fetches
  /\ UNCHANGED <<xkind, xtarget, xfilters, mediaUrls, pending, media, xerrors>>

\* extractor.js lines 45-51: the page arrives; or lines 103-108: it does not
PageSettled(ok) ==
  /\ xpc = "fetching"
  /\ IF ok
       THEN xpc' = "parsing" /\ UNCHANGED xerrors
       ELSE xpc' = "returned" /\ xerrors' = xerrors + 1
  /\ UNCHANGED <<xkind, xtarget, xfilters, mediaUrls, pending, media, fetches>>

\* extractor.js lines 56-68 (browser: lines 152-162): the url u is found
Found(u, src, relative) ==
  /\ xpc = "parsing"
  /\ Cardinality(mediaUrls) < MaxFound
  /\ (src \in {"dom", "network"}) <=> (xkind = "browser")
  /\ relative => src = "html"
  /\ u \notin mediaUrls
  /\ Kept(u, src, relative)
  /\ mediaUrls' = mediaUrls \cup {u}
  /\ UNCHANGED <<xpc, xkind, xtarget, xfilters, pending, media, xerrors, fetches>>

\* extractor.js lines 265-273 and 290-297: a linked stylesheet is asked for
StylesheetRequested(u) ==
  /\ xpc = "parsing"
  /\ xkind = "cheerio"
  /\ u.ext = "none" /\ ~u.pattern
  /\ [what |-> "css", url |-> u] \notin fetches
  /\ fetches' = fetches \cup {[what |-> "css", url |-> u]}
  /\ UNCHANGED <<xpc, xkind, xtarget, xfilters, mediaUrls, pending, media, xerrors>>

\* extractor.js lines 72-73 (browser: lines 166-167)
ValidationStarts ==
  /\ xpc = "parsing"
  /\ pending' = mediaUrls
  /\ xpc' = "validating"
  /\ UNCHANGED <<xkind, xtarget, xfilters, mediaUrls, media, xerrors, fetches>>

\* extractor.js lines 82-98 and 344-385: a HEAD request is sent for u; it
\* is answered (ok) or not, and the size fits the filters or not. Browser,
\* lines 176-186 and 351-367: nothing is sent and every url is kept
Validated(u, ok, fits) ==
  /\ xpc = "validating"
  /\ u \in pending
  /\ pending' = pending \ {u}
  /\ IF xkind = "browser"
       THEN /\ ok /\ fits
            /\ media' = media \cup {MediaInfo(u)}
            /\ UNCHANGED <<xerrors, fetches>>
       ELSE /\ fetches' = fetches \cup {[what |-> "head", url |-> u]}
            /\ ok \/ fits
            /\ media' = IF ok /\ fits THEN media \cup {MediaInfo(u)} ELSE media
            /\ xerrors' = IF ok THEN xerrors ELSE xerrors + 1
  /\ UNCHANGED <<xpc, xkind, xtarget, xfilters, mediaUrls>>

\* extractor.js lines 101-110
ExtractReturns ==
  /\ xpc = "validating"
  /\ pending = {}
  /\ xpc' = "returned"
  /\ UNCHANGED <<xkind, xtarget, xfilters, mediaUrls, pending, media, xerrors, fetches>>

Ex(A) == A /\ UNCHANGED <<poolVars, retryVars, dlVars, regVars, fnVars, nameVars, sweepVars, relVars>>

ExtractNext ==
  \/ Ex(PageRequested)
  \/ \E ok \in BOOLEAN : Ex(PageSettled(ok))
  \/ \E u \in PageUrls, src \in Sources, relative \in BOOLEAN : Ex(Found(u, src, relative))
  \/ \E u \in PageUrls : Ex(StylesheetRequested(u))
  \/ Ex(ValidationStarts)
  \/ \E u \in PageUrls, ok, fits \in BOOLEAN : Ex(Validated(u, ok, fits))
  \/ Ex(ExtractReturns)

\* a call of validateMediaFilters alone (lines 935-949)
FilterIdle ==
  /\ fpc = "idle"
  /\ filters = NoFilters
  /\ validated = NoFilters

FilterInit ==
  /\ fpc = "called"
  /\ filters \in FilterInputs
  /\ validated = NoFilters

\* the call returns the validated object; on null the read of
\* filters.includeImages (line 937) throws a TypeError
FiltersValidated ==
  /\ fpc = "called"
  /\ IF filters = Null
       THEN fpc' = "threw" /\ UNCHANGED validated
       ELSE fpc' = "returned" /\ validated' = ValidateMediaFilters(filters)
  /\ UNCHANGED filters

FilterNext ==
  FiltersValidated /\ UNCHANGED <<poolVars, retryVars, dlVars, regVars, exVars, nameVars, sweepVars, relVars>>

\* ======================================================================
\* Part 6: the files of the downloads (src/unnamed/part_001 lines 58-70,
\* src/src/utils.js lines 83-117)
\* ======================================================================
\* the basenames of the urls, and the directory of each (lines 58-59)
Basenames == {"logo.png", "clip.mp4"}
DirOf(b) == IF b = "logo.png" THEN "images" ELSE "videos"

\* a file name: a basename as it is (n = 0) or with the counter n before its
\* extension
NoPath == <<"", "", -1>>

\* fs.readdirSync(downloadDir): the names of the files in the directory
ExistingFiles(dir) == {<<p[2], p[3]>> : p \in {q \in onDisk : q[1] = dir}}

\* utils.js lines 83-117: the basename if no file has it, else the basename
\* with the first counter from 1 that no file has
GenerateUniqueFilename(b, existingFiles) ==
  IF <<b, 0>> \notin existingFiles
    THEN <<b, 0>>
    ELSE <<b, CHOOSE n \in 1..(NDownloads + 1) :
                /\ <<b, n>> \notin existingFiles
                /\ \A m \in 1..(n - 1) : <<b, m>> \in existingFiles>>

NameIdle ==
  /\ npc = [d \in Downloads |-> "idle"]
  /\ basename = [d \in Downloads |-> "logo.png"]
  /\ filePath = [d \in Downloads |-> NoPath]
  /\ onDisk = {}
  /\ written = {}

\* the calls of a bulk download have been answered
NameInit ==
  /\ npc = [d \in Downloads |-> "answered"]
  /\ basename \in [Downloads -> Basenames]
  /\ filePath = [d \in Downloads |-> NoPath]
  /\ onDisk = {}
  /\ written = {}

\* part_001 lines 58-70, run in one turn when the request of d is answered:
\* the directory is listed, the name is chosen and the write stream created
FileNamed(d) ==
  /\ npc[d] = "answered"
  /\ LET name == GenerateUniqueFilename(basename[d], ExistingFiles(DirOf(basename[d])))
     IN filePath' = [filePath EXCEPT ![d] = <<DirOf(basename[d]), name[1], name[2]>>]
  /\ npc' = [npc EXCEPT ![d] = "opening"]
  /\ UNCHANGED <<basename, onDisk, written>>

\* line 70: the write stream opens its file in a later turn (fs.open with
\* flag 'w' on the thread pool); the file exists from then on
FileOpened(d) ==
  /\ npc[d] = "opening"
  /\ onDisk' = onDisk \cup {filePath[d]}
  /\ npc' = [npc EXCEPT ![d] = "writing"]
  /\ UNCHANGED <<basename, filePath, written>>

\* lines 102-125: the stream finishes and the download is completed; or, lines
\* 105 and 127-131, the write fails and the file is left as it is
FileClosed(d, ok) ==
  /\ npc[d] = "writing"
  /\ npc' = [npc EXCEPT ![d] = IF ok THEN "completed" ELSE "failed"]
  /\ written' = IF ok THEN written \cup {filePath[d]} ELSE written
  /\ UNCHANGED <<basename, filePath, onDisk>>

NameNext ==
  \/ \E d \in Downloads :
       FileNamed(d) /\ UNCHANGED <<poolVars, retryVars, dlVars, regVars, exVars, fnVars, sweepVars, relVars>>
  \/ \E d \in Downloads :
       FileOpened(d) /\ UNCHANGED <<poolVars, retryVars, dlVars, regVars, exVars, fnVars, sweepVars, relVars>>
  \/ \E d \in Downloads, ok \in BOOLEAN :
       FileClosed(d, ok) /\ UNCHANGED <<poolVars, retryVars, dlVars, regVars, exVars, fnVars, sweepVars, relVars>>

ApiIdle ==
  RegistryIdle /\ ExtractIdle /\ FilterIdle /\ NameIdle /\ SweepIdle /\ ReleaseIdle

\* ======================================================================
\* Specifications
\* ======================================================================
Init == PoolInit /\ RetryIdle /\ DownloadIdle /\ ApiIdle

\* A caller whose awaited init promise has settled resumes in the microtask
\* queue, which the event loop drains before it runs any other callback.
MicrotaskReady ==
  \E c \in Callers : pc[c] = "awaitInit" /\ initState[wait[c]] \in {"resolved", "rejected"}

Micro(A) == MicrotaskReady /\ A /\ UNCHANGED <<retryVars, dlVars, apiVars>>
Macro(A) == ~MicrotaskReady /\ A /\ UNCHANGED <<retryVars, dlVars, apiVars>>

\* acquirePage() and releasePage() calls
PoolNext ==
  \/ \E c \in Callers : Micro(InitAwaited(c))
  \/ \E c \in Callers : Macro(Acquire(c))
  \/ \E k \in InitIds, ok \in BOOLEAN : Macro(InitLaunchDone(k, ok))
  \/ \E c \in Callers : Macro(PagesDone(c))
  \/ \E c \in Callers : Macro(NewPageDone(c))
  \/ \E c \in Callers : Macro(ConfigureDone(c))
  \/ \E c \in Callers, ok \in BOOLEAN : Macro(LaunchDone(c, ok))
  \/ \E c \in Callers : Macro(Poll(c))
  \/ \E c \in Callers : Macro(Timeout(c))
  \/ \E c \in Callers : Macro(Release(c))
  \/ \E c \in Callers, ok \in BOOLEAN : Macro(ReleaseDone(c, ok))

\* a shutdown() call
ShutdownNext ==
  \/ Macro(ShutdownStart)
  \/ \E p \in PageIds : Macro(ShutdownPageClosed(p))
  \/ Macro(ShutdownBrowserClosed)

Next == PoolNext \/ ShutdownNext

\* the event loop runs ready microtasks, and an armed timer fires
PoolFairness ==
  \A c \in Callers : WF_vars(Micro(InitAwaited(c))) /\ WF_vars(Macro(Timeout(c)))

\* acquirePage(), releasePage() and shutdown() calls
Spec == Init /\ [][Next]_vars

\* acquirePage() and releasePage() calls only
PoolSpec == Init /\ [][PoolNext]_vars

\* the same, with the fairness of the event loop: a settled promise's
\* continuation runs, and an armed timer fires
FairPoolSpec == Init /\ [][PoolNext]_vars /\ PoolFairness

\* acquirePage() and releasePage() calls on a pool whose browsers can crash
DisconnectNext == PoolNext \/ \E b \in BrowserIds : Macro(Disconnected(b))
DisconnectSpec == Init /\ [][DisconnectNext]_vars

\* acquirePage() and releasePage() calls, and releasePage() calls on handles
\* that are not leased
Again(A) ==
  /\ ~MicrotaskReady
  /\ A
  /\ UNCHANGED <<retryVars, dlVars, regVars, exVars, fnVars, nameVars, sweepVars>>

ReleaseNext ==
  \/ PoolNext
  \/ \E p \in PageIds : Again(ReleaseAgain(p))
  \/ \E p \in PageIds, ok \in BOOLEAN : Again(ReleaseAgainDone(p, ok))

ReleaseSpec == Init /\ [][ReleaseNext]_vars

\* a pool that is left alone
PoolUnused == PoolInit /\ maxBrowsers = 1 /\ maxPagesPerBrowser = 1 /\ blankTabs = 1

\* one retryAsync call, the pool left alone
RetryCallInit == PoolUnused /\ RetryInit /\ DownloadIdle /\ ApiIdle
RetrySpec == RetryCallInit /\ [][RetryNext]_vars

\* one retryAsync call with any observer
ObserverCallInit == PoolUnused /\ ObserverInit /\ DownloadIdle /\ ApiIdle
ObserverSpec == ObserverCallInit /\ [][RetryNext]_vars

\* one fetchHtml call
FetchHtmlCallInit == PoolUnused /\ FetchHtmlInit /\ DownloadIdle /\ ApiIdle
FetchHtmlSpec == FetchHtmlCallInit /\ [][RetryNext]_vars

\* one DownloadManager: a downloadBulk call and other downloadFile calls,
\* without progress callback
DownloadCallInit == PoolUnused /\ RetryIdle /\ DownloadInit /\ ApiIdle
DownloadSpec == DownloadCallInit /\ [][BulkNext]_vars

\* the event loop and the servers: the delay of waitForSlot ends, a resolved
\* await goes on, a request is answered or fails, and an answered stream
\* delivers, ends or errors
DownloadFairness ==
  \A d \in Downloads :
    /\ WF_vars(Later(StartDownload(d)))
    /\ WF_vars(Later(SlotTick(d)))
    /\ WF_vars(Soon(Admitted(d)))
    /\ WF_vars(\E a \in Answers : Later(Responded(d, a[1], a[2])))
    /\ WF_vars(Later(Chunk(d)) \/ Later(StreamError(d)) \/ Later(WriteError(d))
                 \/ Later(Finished(d)))

\* the same calls as in DownloadSpec, every awaited call settling
FairDownloadSpec == DownloadCallInit /\ [][BulkNext]_vars /\ DownloadFairness

\* a downloadBulk call for all the downloads followed by createZipArchive,
\* with cleanupJob calls at any time
ArchiveCallInit == DownloadCallInit /\ total = NDownloads
ArchiveSpec == ArchiveCallInit /\ [][DownloadNext]_vars

\* one extraction
ExtractCallInit ==
  /\ PoolUnused /\ RetryIdle /\ DownloadIdle
  /\ RegistryIdle /\ ExtractInit /\ FilterIdle /\ NameIdle /\ SweepIdle /\ ReleaseIdle

\* one call of validateMediaFilters
FilterCallInit ==
  /\ PoolUnused /\ RetryIdle /\ DownloadIdle
  /\ RegistryIdle /\ ExtractIdle /\ FilterInit /\ NameIdle /\ SweepIdle /\ ReleaseIdle
FilterSpec == FilterCallInit /\ [][FilterNext]_vars

\* the files of the calls of one bulk download
NameCallInit ==
  /\ PoolUnused /\ RetryIdle /\ DownloadIdle
  /\ RegistryIdle /\ ExtractIdle /\ FilterIdle /\ NameInit /\ SweepIdle /\ ReleaseIdle
NameSpec == NameCallInit /\ [][NameNext]_vars
ExtractSpec == ExtractCallInit /\ [][ExtractNext]_vars

\* the requests to the routes, followed one by one
JobCallInit == PoolUnused /\ RetryIdle /\ DownloadIdle /\ ApiIdle
JobSpec == JobCallInit /\ [][JobNext]_vars

\* the requests, the passing of time and the periodic sweep
SweepSpec == JobCallInit /\ [][SweepNext]_vars

\* the requests up to the answer of their handlers
RequestSpec == JobCallInit /\ [][RequestNext]_vars

\* the servers asked answer, fail or close the stream, and the archive is
\* written or fails: each awaited call of a handler settles
JobFairness ==
  \A r \in Requests :
    /\ WF_vars(\E out \in {"found", "caught", "threw"} : Api(ExtractSettled(r, out)))
    /\ WF_vars((\E bad \in FailedCounts(jlen[r]) : Api(BulkDownloaded(r, bad)))
                \/ Api(BulkDied(r)))
    /\ WF_vars(\E ok \in BOOLEAN : Api(ZipSettled(r, ok)))

\* the same requests, every awaited call settling
FairJobSpec == JobCallInit /\ [][JobNext]_vars /\ JobFairness

\* the two maps under any number of requests
RegistrySpec == JobCallInit /\ [][RegistryNext]_vars

\* the same calls as in DownloadSpec, given a progress callback
ProgressCallInit == PoolUnused /\ RetryIdle /\ ProgressInit /\ ApiIdle
ProgressSpec == ProgressCallInit /\ [][BulkNext]_vars

\* ======================================================================
\* Claims about the browser pool
\* ======================================================================
Leased == {"holding", "releasing"}

\* C1: under every interleaving of acquirePage() and releasePage() calls the
\* busy set holds at most maxBrowsers * maxPagesPerBrowser handles.
C1_BusyWithinCapacity ==
  Cardinality(busyPages) <= maxBrowsers * maxPagesPerBrowser

\* C2: no handle is leased to two callers at the same time (a lease lasts
\* from the return of acquirePage() to the end of the holder's releasePage()).
C2_ExclusiveLease ==
  \A c1, c2 \in Callers :
    (c1 # c2 /\ pc[c1] \in Leased /\ pc[c2] \in Leased) => page[c1] # page[c2]

\* two callers hold leases at the same time, one of them on a handle that
\* was released before (more handles were handed out than pages were opened)
C2_Witness ==
  /\ \E c1, c2 \in Callers : c1 # c2 /\ pc[c1] = "holding" /\ pc[c2] = "holding"
  /\ Cardinality({c \in Callers : pc[c] \in Leased \cup {"done"}}) > nPages

\* C3: a handle whose reset failed in releasePage() is never in the available
\* list (nor in the busy set) afterwards and no caller is handed it again.
C3_NoResurrection ==
  \A p \in failedReset :
    /\ p \notin Range(availablePages)
    /\ p \notin busyPages
    /\ \A c \in Callers : pc[c] = "holding" => page[c] # p

\* a reset failed and acquirePage() handed out a handle after that
C3_Witness ==
  /\ failedReset # {}
  /\ grantedAfterFail
  /\ \E c \in Callers : pc[c] = "holding"

\* C4: a caller that waits at full capacity does not wait forever: its wait
\* ends with a handle, taken from the available list, or else with the
\* timeout failure, and once it has timed out its polling has stopped.
C4_WaitEndsInTimeout ==
  /\ [](\A c \in Callers : pc[c] = "timedout" => ~polling[c])
  /\ [][\A c \in Callers :
          (pc[c] = "waiting" /\ pc'[c] # "waiting") =>
             \/ pc'[c] = "timedout"
             \/ pc'[c] = "holding" /\ Len(availablePages) > 0]_vars
  /\ \A c \in Callers : (pc[c] = "waiting") ~> (pc[c] # "waiting")

\* a caller waited at full capacity and its call ended with the timeout
C4_Witness ==
  \E c \in Callers :
    /\ pc[c] = "timedout"
    /\ availablePages = <<>>
    /\ Len(browsers) >= maxBrowsers
    /\ \A i \in 1..Len(browsers) : OpenPages(browsers[i]) >= maxPagesPerBrowser

\* C5: between two shutdowns at most one initialization is started, whatever
\* the number of concurrent acquirePage() calls, and every caller that waits
\* for initialization waits for that one.
C5_SingleFlightInit ==
  /\ Cardinality({k \in 1..nInit : initEpoch[k] = epoch}) <= 1
  /\ \A c \in Callers :
       (pc[c] = "awaitInit" /\ callEpoch[c] = epoch) => wait[c] = initPromise

\* two callers wait on the one pending initialization
C5_Witness ==
  \E c1, c2 \in Callers :
    /\ c1 # c2
    /\ pc[c1] = "awaitInit" /\ pc[c2] = "awaitInit"
    /\ wait[c1] = wait[c2]
    /\ initState[wait[c1]] = "pending"
    /\ nInit = 1

\* C6: the pool never owns more than maxBrowsers sessions.
C6_SessionsWithinCap == Len(browsers) <= maxBrowsers

\* C7: when shutdown() completes the session list, the available set and the
\* busy set are empty and the initialization marker is cleared, and a later
\* acquirePage() never returns a handle created before that shutdown.
C7_ShutdownResets ==
  /\ [][epoch' # epoch =>
          /\ browsers' = <<>>
          /\ availablePages' = <<>>
          /\ busyPages' = {}
          /\ initPromise' = 0]_vars
  /\ [](\A c \in Callers : pc[c] = "holding" => pageEpoch[page[c]] >= callEpoch[c])

\* ======================================================================
\* Claims about retryAsync
\* ======================================================================
\* C8: a failure with a status in 400..499 other than 408 and 429 ends the
\* call at once: it is the last attempt, its error is the one thrown, and no
\* wait follows it (so an operation failing that way at its first attempt is
\* attempted exactly once). A failure with any other status, or with no
\* status, that leaves attempts is followed by a wait and another attempt.
C8_RetryClassification ==
  LET ClientError(e) == e.status \in (400..499) \ {408, 429} IN
  \A i \in 1..Len(errs) :
    IF ClientError(errs[i])
      THEN /\ i = Len(errs)
           /\ rpc = "thrown"
           /\ result = errs[i]
           /\ calls = i
           /\ Len(waits) = i - 1
      ELSE i <= maxRetries =>
             /\ Len(waits) >= i
             /\ \/ rpc = "delay" /\ attempt = i - 1
                \/ rpc = "try" /\ attempt = i /\ calls = i
                \/ calls > i

\* a 429 was retried and the 404 that followed ended the call, with attempts
\* left
C8_Witness ==
  /\ rpc = "thrown"
  /\ Len(errs) = 2
  /\ errs[1].status = 429
  /\ errs[2].status = 404
  /\ calls = 2
  /\ maxRetries = 3

\* every attempt so far failed with status 503
All503 == \A i \in 1..Len(errs) : errs[i].status = 503

\* the wait after failed attempt k is retryDelay * backoffMultiplier^k
BackoffWaits ==
  \A k \in 0..(Len(waits) - 1) :
    waits[k + 1] * Pow(backoffMultiplier[2], k) = retryDelay * Pow(backoffMultiplier[1], k)

NonDecreasingWaits == \A k \in 1..(Len(waits) - 1) : waits[k] <= waits[k + 1]

\* C9 as stated: an operation that always fails with 503 is attempted
\* maxRetries + 1 times, the wait after failed attempt k is
\* retryDelay * backoffMultiplier^k, the waits are non-decreasing, and no wait
\* follows the last attempt.
C9_WaitsNonDecreasing ==
  All503 =>
    /\ BackoffWaits
    /\ NonDecreasingWaits
    /\ rpc = "thrown" =>
         /\ calls = maxRetries + 1
         /\ Len(waits) = maxRetries

\* C9 amended: the same, the waits being non-decreasing when
\* backoffMultiplier >= 1.
C9_BackoffSchedule ==
  All503 =>
    /\ BackoffWaits
    /\ backoffMultiplier[1] >= backoffMultiplier[2] => NonDecreasingWaits
    /\ rpc = "thrown" =>
         /\ calls = maxRetries + 1
         /\ Len(waits) = maxRetries

\* four attempts failed with 503 after waits of 1000, 2000 and 4000
C9_Witness ==
  /\ All503
  /\ rpc = "thrown"
  /\ maxRetries = 3
  /\ calls = 4
  /\ waits = <<1000, 2000, 4000>>

\* C10: when every attempt failed with a retryable error the call fails with
\* the error of the last attempt; when an attempt succeeds the call returns
\* that attempt's result and that attempt is the last one made.
C10_LastErrorOrFirstSuccess ==
  LET Retryable(e) == e.status \notin (400..499) \ {408, 429} IN
  /\ (rpc = "thrown" /\ \A i \in 1..Len(errs) : Retryable(errs[i])) =>
       /\ Len(errs) = maxRetries + 1
       /\ calls = Len(errs)
       /\ result = errs[Len(errs)]
  /\ rpc = "returned" =>
       /\ result = [at |-> attempt, status |-> 200]
       /\ calls = attempt + 1
       /\ Len(errs) = attempt

\* the attempts failed with different retryable errors until none was left
C10_Witness ==
  /\ rpc = "thrown"
  /\ Len(errs) = maxRetries + 1
  /\ Len(errs) >= 2
  /\ errs[1].status = 500
  /\ errs[Len(errs)].status = 503
  /\ \A i \in 1..Len(errs) : errs[i].status \in {500, 503}

\* C11: the observer is called exactly once before each wait, with the
\* 1-based attempt number, maxRetries, the wait and the triggering error, and
\* whatever the observer does the call makes the same attempts and ends with
\* the same result or error as the same call without observer.
C11_ObserverIsPassive ==
  /\ onRetry # "none" =>
       /\ Len(notes) = Len(waits)
       /\ \A k \in 1..Len(notes) :
            notes[k] = [n |-> k, max |-> maxRetries, wait |-> waits[k], err |-> errs[k]]
  /\ plain = [rpc |-> rpc, result |-> result, calls |-> calls]

\* C12: when the page answers 404, fetchHtml issues exactly one request.
C12_NotFoundRequestedOnce ==
  (site = "fetchHtml" /\ Len(answers) >= 1 /\ answers[1] = 404) => calls = 1

\* C13: the number of downloads in flight on one manager never exceeds its
\* concurrency limit, also when several callers leave the wait for a slot
\* after the same slot was freed.
C13_InFlightWithinLimit == Cardinality(activeDownloads) <= concurrent

\* a slot was freed with two callers waiting for it: one has left
\* waitForSlot, the other is still in it
C13_Witness ==
  /\ concurrent = 1
  /\ \E d, e \in Downloads : dpc[d] = "slotFree" /\ dpc[e] = "slotWait"
  /\ \E f \in Downloads : dpc[f] \in {"returned", "threw"}

\* the call d streamed more than maxFileSize bytes
StreamedOver(d) ==
  \/ downloadedBytes[d] > maxFileSize
  \/ crashed.by = d /\ crashed.bytes > maxFileSize

\* C14: once the streamed bytes of a download exceed the size ceiling, the
\* download fails with the size error, its partial file does not exist, and
\* it is recorded as failed and not as completed.
C14_OverCeilingFails ==
  \A d \in Downloads :
    StreamedOver(d) =>
      /\ dpc[d] = "threw"
      /\ dlError[d] = "too large"
      /\ ~fileExists[d]
      /\ d \in failedDownloads
      /\ d \notin completedDownloads

\* C15: a download whose response declares a length over the size ceiling
\* fails with the size error before any file is created, leaves the
\* in-flight set and is recorded as failed.
C15_DeclaredOverCeilingFails ==
  \A d \in overDeclared :
    /\ dpc[d] = "threw"
    /\ dlError[d] = "too large"
    /\ ~fileExists[d]
    /\ downloadedBytes[d] = 0
    /\ d \notin activeDownloads
    /\ d \in failedDownloads
    /\ d \notin completedDownloads

\* a response declared a length over the ceiling while another download
\* goes on
C15_Witness ==
  \E d \in overDeclared, e \in Downloads : dpc[d] = "threw" /\ dpc[e] = "stream"

\* C16: when the response stream of a download errors, the download fails
\* with a network error, its partial file is deleted, and it leaves the
\* in-flight set and is recorded as failed.
C16_StreamErrorFails ==
  \A d \in Downloads :
    (crashed.by = d /\ crashed.why = "stream error") =>
      /\ dpc[d] = "threw"
      /\ dlError[d] = "network"
      /\ ~fileExists[d]
      /\ d \notin activeDownloads
      /\ d \in failedDownloads

\* how often d occurs in the sequence s
RECURSIVE Occurrences(_, _)
Occurrences(s, d) ==
  IF s = <<>> THEN 0 ELSE (IF s[1] = d THEN 1 ELSE 0) + Occurrences(Tail(s), d)

\* C17: downloadBulk returns only after every item has settled, and then
\* every item is exactly once in exactly one of results.completed and
\* results.failed, the lists holding nothing else.
C17_EveryItemSettledOnce ==
  bulkpc = "returned" =>
    /\ \A d \in Items :
         /\ dpc[d] \in {"returned", "threw"}
         /\ Occurrences(results.completed, d) + Occurrences(results.failed, d) = 1
    /\ Len(results.completed) + Len(results.failed) = total

\* s is a non-empty prefix of t
IsPrefix(s, t) == Len(s) >= 1 /\ Len(s) <= Len(t) /\ s = SubSeq(t, 1, Len(s))

\* C18: a bulk call of three urls, the first answered 200, the second 500,
\* 500 and then 200, the third 404, returns two completed and one failed
\* item, the 404 url having been requested once.
C18_TransientFailureRetried ==
  ( /\ bulkpc = "returned"
    /\ total = 3
    /\ asked[1] = <<200>> /\ dpc[1] = "returned"
    /\ IsPrefix(asked[2], <<500, 500, 200>>)
    /\ asked[3] = <<404>> )
  => /\ Len(results.completed) = 2
     /\ Len(results.failed) = 1
     /\ results.failed = <<3>>

\* a file recorded as completed was missing when the archive was built
SourceMissing == \E d \in Range(results.completed) : d \notin zipQueued

\* C19: the manifest of a built archive counts the completed files, sums
\* their sizes, and every file it lists is in the archive.
C19_ManifestMatchesArchive ==
  zpc = "closed" =>
    /\ manifest.totalFiles = Len(results.completed)
    /\ manifest.totalSize = SumSizes(results.completed)
    /\ \A d \in Range(manifest.files) : EntryName(d) \in zipEntries

\* C20: when the file of a completed record is missing, the archive is built
\* without it, and the returned file count and the manifest describe only
\* the files that were placed in the archive.
C20_MissingFileSkipped ==
  (zpc = "closed" /\ SourceMissing) =>
    /\ fileCount = Cardinality(zipEntries)
    /\ manifest.totalFiles = Cardinality(zipEntries)
    /\ {EntryName(d) : d \in Range(manifest.files)} = zipEntries

\* C21: the number of active jobs never exceeds the active ceiling.
C21_ActiveWithinCeiling == ActiveSize <= ActiveCeiling

\* C22: the number of completed jobs never exceeds the completed ceiling.
C22_CompletedWithinCeiling == ResultsSize <= CompletedCeiling

\* C23: every job that was created ends as completed or failed; a status is
\* never anything but running, completed or failed, and a failed job
\* carries an error message.
C23_EveryJobEnds ==
  /\ [](\A k \in Keys :
          /\ activeJobs[k] \in {"absent", "extracting", "downloading"}
          /\ jobResults[k].status \in {"none", "completed", "failed"}
          /\ jobResults[k].status = "failed" => jobResults[k].error # "")
  /\ \A r \in Requests :
       (jpc[r] \in {"extracting", "downloading", "zipping"}) ~> (jpc[r] = "done")

\* C24: a bulk download with failed items ends as a completed job whose
\* failed list holds exactly the failed items; no item's failure makes the
\* job fail or keeps the other items from being attempted.
C24_ItemFailureStaysLocal ==
  /\ died = 0
  /\ \A r \in Requests :
       (jpc[r] = "done" /\ jkey[r] \in BulkKeys /\ jobResults[jkey[r]].by = r) =>
         /\ jobResults[jkey[r]].status = "completed" =>
              /\ jobResults[jkey[r]].failed = jbad[r]
              /\ jobResults[jkey[r]].completed = jlen[r] - jbad[r]
         /\ jobResults[jkey[r]].status = "failed" => jobResults[jkey[r]].error = "archive"

\* C25: an extraction whose pipeline raised an exception ends as a failed
\* job, not as a completed one.
C25_RaisedExtractionFails ==
  \A k \in JobKeys : jobResults[k].raised => jobResults[k].status = "failed"

\* the bulk job k has ended and its cleanup is requested
CleanupOfFinished(k) ==
  /\ jobResults[k].status # "none"
  /\ \E M \in SUBSET Requests : CleanupRequested(k, M)

\* C26: the cleanup of a finished bulk job removes its registry entry, the
\* download records and files of the job and its archive, and leaves the
\* records and files of every other job as they were.
C26_CleanupRemovesTheJob ==
  [][\A k \in BulkKeys :
       CleanupOfFinished(k) =>
         /\ activeJobs'[k] = "absent"
         /\ jobResults'[k] = NoJob
         /\ zipOnDisk'[k] = 0
         /\ \A q \in Requests :
              IF q = jobResults[k].by
                THEN records'[q] = NoRecords /\ files'[q] = 0
                ELSE records'[q] = records[q] /\ files'[q] = files[q]]_vars

\* C27: a bulk request with more than 100 urls is answered "too many files",
\* creates no job and starts no download; one with exactly 100 is accepted.
C27_ListLimit ==
  [][\A r \in Requests :
       (jpc[r] = "idle" /\ jpc'[r] # "idle") =>
         /\ jlen'[r] > MaxFiles =>
              /\ answer'[r] = "too many files"
              /\ jpc'[r] = "rejected"
              /\ UNCHANGED <<activeJobs, jobResults, jkey, records, files, zipOnDisk>>
         /\ jlen'[r] = MaxFiles =>
              /\ answer'[r] = "started"
              /\ jpc'[r] = "downloading"
              /\ activeJobs'[jkey'[r]] = "downloading"]_vars

\* one request with 101 urls was refused, one with 100 runs
C27_Witness ==
  \E r, q \in Requests :
    /\ jlen[r] = MaxFiles + 1 /\ answer[r] = "too many files"
    /\ jlen[q] = MaxFiles /\ jpc[q] = "downloading"

\* C28: two bulk downloads that overlap have distinct job ids, and what is
\* reported for a running one is never the result of the other.
C28_BulkJobsApart ==
  \A r, q \in Requests :
    (r # q /\ jpc[r] \in {"downloading", "zipping"} /\ jpc[q] \in {"downloading", "zipping"}
       /\ jkey[r] \in BulkKeys /\ jkey[q] \in BulkKeys) =>
      /\ jkey[r] # jkey[q]
      /\ jobResults[jkey[r]].by # q

\* C29: an extraction asked for images and not for videos returns no media
\* item of type "video", whatever the page holds
C29_NoVideoWhenImagesOnly ==
  (xfilters.includeImages = "true" /\ xfilters.includeVideos = "false")
    => \A m \in media : m.type # "video"

\* C30: every request sent (for the page, a stylesheet, or the HEAD of a
\* media url) goes to a url that isSafeUrl accepts
C30_OnlySafeUrlsFetched == \A f \in fetches : IsSafeUrl(f.url)

\* C31: for every argument validateMediaFilters returns a filter: at least
\* one of its flags is true (both, when both were sent as false), a flag is
\* false only when it was sent as exactly false and the other was not, and
\* minSizeBytes is an integer >= 0
C31_FiltersValidated ==
  /\ fpc # "threw"
  /\ fpc = "returned" =>
       /\ validated.includeImages \/ validated.includeVideos
       /\ (filters.includeImages = "false" /\ filters.includeVideos = "false")
            => (validated.includeImages /\ validated.includeVideos)
       /\ ~validated.includeImages
            => (filters.includeImages = "false" /\ filters.includeVideos # "false")
       /\ ~validated.includeVideos
            => (filters.includeVideos = "false" /\ filters.includeImages # "false")
       /\ validated.minSizeBytes \in Nat

\* C32: acquirePage() keeps its order of preference: a call starts to open
\* a page (browser.newPage()) only while the available list is empty, it
\* starts to launch a browser only while the available list is empty and no
\* connected browser is below the page limit, and a call that takes an
\* available handle only moves it from the available list to the busy set
C32_PreferenceOrder ==
  [][\A c \in Callers :
       /\ (pc[c] # "newPage" /\ pc'[c] = "newPage") => availablePages = <<>>
       /\ (pc[c] # "launch" /\ pc'[c] = "launch") =>
            /\ availablePages = <<>>
            /\ \A j \in LiveFrom(1) : ~HasPageCapacity(OpenPages(browsers[j]))
       /\ (pc[c] # "holding" /\ pc'[c] = "holding" /\ page'[c] \in Range(availablePages)) =>
            /\ availablePages' = Pop(availablePages)
            /\ busyPages' = busyPages \cup {page'[c]}
            /\ UNCHANGED <<browsers, initVars, worldVars>>]_vars

\* C33: a download is never given the path of a download still in flight,
\* nor the path of a file written by a completed download, also when the
\* urls share their basename
C33_UniqueFilePath ==
  [][\A d \in Downloads :
       (npc[d] = "answered" /\ npc'[d] = "opening") =>
         /\ filePath'[d] \notin written
         /\ \A e \in Downloads \ {d} :
              npc[e] \in {"opening", "writing"} => filePath'[d] # filePath[e]]_vars

\* C34: a run of the periodic sweep removes every entry of jobResults older
\* than the retention window, with the archive and the files of its job;
\* it removes no active job and no younger entry, and leaves their files
C34_SweepRemovesOldJobsOnly ==
  [][nSweeps' = nSweeps + 1 =>
       /\ \A k \in old :
            /\ jobResults'[k] = NoJob
            /\ zipOnDisk'[k] = 0
            /\ k \in BulkKeys => files'[jobResults[k].by] = 0
       /\ \A k \in Keys \ old :
            /\ jobResults'[k] = jobResults[k]
            /\ activeJobs'[k] = activeJobs[k]
            /\ zipOnDisk'[k] = zipOnDisk[k]
       /\ \A q \in Requests : jkey[q] \notin old => files'[q] = files[q]]_vars

\* C35: every download that enters activeDownloads leaves it, whatever its
\* outcome, and every call blocked in waitForSlot is admitted
C35_EveryDownloadLeaves ==
  \A d \in Downloads :
    /\ (d \in activeDownloads) ~> (dpc[d] \in {"returned", "threw"})
    /\ (dpc[d] = "slotWait") ~> (dpc[d] = "request")

\* a GET /status/k is answered 404 (lines 449-468)
NotFound(k) == activeJobs[k] = "absent" /\ jobResults[k] = NoJob

\* C36: a job cleaned up while its extraction or bulk download was running
\* stays not-found: the pipeline that finishes later does not store it again
C36_CleanedJobStaysGone ==
  [][\A r \in Requests :
       (/\ jpc[r] \in {"extracting", "downloading", "zipping"}
        /\ NotFound(jkey[r])
        /\ jpc'[r] = "done")
         => (activeJobs'[jkey[r]] = "absent" /\ jobResults'[jkey[r]] = NoJob)]_vars

\* C37: a job id is in at most one of activeJobs and jobResults, and an
\* entry of jobResults does not change until it is removed
C37_OneMapAndStableResult ==
  /\ [](\A k \in Keys : activeJobs[k] = "absent" \/ jobResults[k] = NoJob)
  /\ [][\A k \in Keys :
          jobResults[k] # NoJob => jobResults'[k] \in {jobResults[k], NoJob}]_vars

\* C40: a failed initialization is not permanent: the calls that wait on it
\* fail with its error, and a call made after it failed starts a new
\* initialization and does not wait on the rejected one
C40_FailedInitRetried ==
  [][\A c \in Callers :
       /\ (pc[c] = "awaitInit" /\ initState[wait[c]] = "rejected" /\ pc'[c] # "awaitInit")
            => pc'[c] = "failed"
       /\ (pc[c] = "idle" /\ pc'[c] = "awaitInit")
            => initState'[wait'[c]] # "rejected"]_vars

\* C39: acquirePage() never returns a handle of a disconnected browser, and a
\* call is not left to wait for a page while every browser of the pool is
\* disconnected
C39_DisconnectedSessionsLeft ==
  [][\A c \in Callers :
       /\ (pc[c] # "holding" /\ pc'[c] = "holding") => connected[pageOwner[page'[c]]]
       /\ (pc[c] # "waiting" /\ pc'[c] = "waiting") => LiveFrom(1) # {}]_vars

\* C38: the available list holds no handle twice and no handle is both
\* available and busy, also when releasePage() is called on a handle that is
\* not leased
C38_ReleaseIdempotent ==
  /\ \A i, j \in 1..Len(availablePages) : i # j => availablePages[i] # availablePages[j]
  /\ Range(availablePages) \cap busyPages = {}
====
